---- MODULE Spec2Model ----
(***************************************************************************)
(* Fusion: agent registry (core/agent_loader.py), uniform dispatch         *)
(* (core/dispatcher.py), routing (core/orchestrator.py,                    *)
(* prompt_orchestrator.py) and the API with its fan-out (fusion_api.py).   *)
(*                                                                         *)
(* Python values are records with a tag t, so that values of different     *)
(* Python types can be compared.  A name-to-handle dict is a function      *)
(* whose domain is the set of keys.                                        *)
(***************************************************************************)
EXTENDS Naturals, Sequences, FiniteSets, TLC

VARIABLES
    \* ---- registry: the environment the loaders read
    manifest,            \* the manifest file: [kind, agents]
    modules,             \* per agent name: what importing / constructing it does
    plugins_dir_exists,  \* whether the plugins directory exists
    plugin_registry,     \* plugin_registry after discovery: name -> none / ok / fails
    \* ---- registry: program state
    loaded,              \* the last loader call and what it gave its caller
    loaded_agents,       \* AgentLoader.loaded_agents
    manifest_data,       \* AgentLoader.manifest_data
    agent_map,           \* fusion_api.agent_map
    agent_manifest,      \* fusion_api.agent_manifest
    \* ---- dispatcher
    agents,              \* Dispatcher.agents: name -> handler shape
    request,             \* the last dispatch call: [agent_name, behaviour]
    calls,               \* handler invocations made by the last dispatch
    outcome,             \* what the last dispatch gave its caller
    error_log,           \* logger.error records written by the last dispatch
    \* ---- listings
    listing,             \* per list operation: what it returned since the last reload
    \* ---- rewrite/route service (prompt_orchestrator.py)
    route_request,       \* the last POST /route: PromptMaster's result and the threshold
    route_response,      \* what route_agent answered
    \* ---- local heuristic (core/orchestrator.py)
    prompt_text,         \* the prompt given to select_agent, a sequence of characters
    selected,            \* the agent select_agent returned
    \* ---- API (fusion_api.py)
    api_request,         \* the request being handled and what its collaborators do
    api_response,        \* what the endpoint gave its caller
    api_trace,           \* the calls the endpoint made to its collaborators, in order
    \* ---- fan-out (fusion_api.py and the coordinator)
    fan_request,         \* the agent names of the /run_parallel request
    fan_pc,              \* idle, running or done
    fan_results,         \* all_results: name -> a result or an error marker
    fan_order,           \* the names in the order their invocations finished
    fan_evaluations,     \* evaluations: name -> score
    fan_response,        \* what /run_parallel gave its caller
    \* ---- Orchestrator.rewrite (core/orchestrator.py)
    pm_result,           \* the prompt given to rewrite and what prompt_master.run_async does
    rewritten,           \* what rewrite gave its caller
    \* ---- concurrent reloads of one AgentLoader (core/agent_loader.py)
    reload_pc,           \* per thread: where it is in AgentLoader.load_agents, and its locals
    reload_log,          \* which load wrote manifest_data and which wrote loaded_agents
    observed,            \* what the last reader found in the two attributes
    \* ---- a serving process and its agent instances
    proc,                \* the program that runs, how far its start is, the requests served
    created              \* the constructor calls of agent classes, in order

vars == <<manifest, modules, plugins_dir_exists, plugin_registry, loaded,
          loaded_agents, manifest_data, agent_map, agent_manifest,
          agents, request, calls, outcome, error_log, listing,
          route_request, route_response, prompt_text, selected,
          api_request, api_response, api_trace,
          fan_request, fan_pc, fan_results, fan_order, fan_evaluations,
          fan_response, pm_result, rewritten, reload_pc, reload_log, observed,
          proc, created>>

dispatcher_vars == <<agents, request, calls, outcome, error_log>>

service_vars == <<route_request, route_response, prompt_text, selected,
                  api_request, api_response, api_trace,
                  fan_request, fan_pc, fan_results, fan_order, fan_evaluations,
                  fan_response>>

rewrite_vars == <<pm_result, rewritten>>

reload_vars == <<reload_pc, reload_log, observed>>

process_vars == <<proc, created>>

----------------------------------------------------------------------------
(* Bounds *)

\* longest manifest `agents` mapping drawn
MaxManifest == 2

\* most agents in the dispatcher's map
MaxRegistered == 1

\* longest suggested_agents list PromptMaster gives
MaxSuggested == 3

\* largest confidence and threshold drawn, in tenths
MaxConfidence == 10

\* most words in a prompt given to the heuristic
MaxWords == 2

\* most agents in one fan-out request
MaxFanout == 3

\* largest score the evaluator gives
MaxScore == 1

\* most calls of one list operation between two reloads
MaxListCalls == 2

\* most calls of AgentLoader.load_agents started by the threads
MaxReloads == 3

\* most requests a serving process answers
MaxRequests == 2

\* the agent names of the model; the first two are names of the routing table
AgentNames == {"evaluator", "vp_design", "summarizer"}

----------------------------------------------------------------------------
(* Python dicts as functions *)

EmptyDict == [n \in {} |-> 0]

\* dict.update(other): keys of other are written over those of d
DictUpdate(d, other) ==
    [n \in (DOMAIN d) \cup (DOMAIN other) |->
        IF n \in DOMAIN other THEN other[n] ELSE d[n]]

\* d[name] = value
DictSet(d, name, value) ==
    [n \in (DOMAIN d) \cup {name} |-> IF n = name THEN value ELSE d[n]]

----------------------------------------------------------------------------
(* Registry: agent_loader.py *)

\* What resolving one manifest entry does: import agents.<name>_agent,
\* getattr(module, <Pascal>Agent), and call the class.
ModuleOutcomes == {"ok", "missing_module", "missing_class", "ctor_raises"}

\* The exception an outcome raises inside the per-entry try block.  A
\* constructor may raise anything; RuntimeError stands for a kind other than
\* the two the loaders name.
RaisedBy(o) ==
    CASE o = "missing_module" -> "ImportError"
      [] o = "missing_class"  -> "AttributeError"
      [] o = "ctor_raises"    -> "RuntimeError"
      [] OTHER                -> "none"

\* except (ImportError, AttributeError)
CaughtByCoreLoad == {"ImportError", "AttributeError"}

\* An instantiated agent: which class made it.
Handle(name, origin) == [name |-> name, origin |-> origin]

\* The manifest file: absent, not JSON, a JSON object without `agents`, or
\* a document whose `agents` mapping has the names of the sequence as keys.
\* Sequences of distinct names of length at most k
RECURSIVE DistinctSeqs(_, _)
DistinctSeqs(S, k) ==
    IF k = 0 THEN {<<>>}
    ELSE {<<>>} \cup
         UNION { {<<n>> \o s : s \in DistinctSeqs(S \ {n}, k - 1)} : n \in S }

Manifests ==
    {[kind |-> k, agents |-> <<>>] : k \in {"absent", "badjson", "noagents"}}
    \cup {[kind |-> "doc", agents |-> s] : s \in DistinctSeqs(AgentNames, MaxManifest)}

\* What a loader call gives its caller.
Returned(op, d, failed) ==
    [op |-> op, kind |-> "returned", agents |-> d, exc |-> "none", failed |-> failed]

Raised(op, exc) ==
    [op |-> op, kind |-> "raised", agents |-> EmptyDict, exc |-> exc, failed |-> {}]

NotCalled == [op |-> "none", kind |-> "none", agents |-> EmptyDict, exc |-> "none", failed |-> {}]

\* The for loop over the manifest's agent names, shared by load_agents and
\* _load_core_agents: an entry whose exception the except clause names is
\* printed and skipped; any other exception leaves the loop and the function.
RECURSIVE LoadLoop(_, _, _, _, _)
LoadLoop(op, names, mods, acc, failed) ==
    IF names = <<>> THEN Returned(op, acc, failed)
    ELSE LET name == Head(names)
             exc  == RaisedBy(mods[name])
         IN  IF exc = "none"
             THEN LoadLoop(op, Tail(names), mods,
                           DictSet(acc, name, Handle(name, "core")), failed)
             ELSE IF exc \in CaughtByCoreLoad
             THEN LoadLoop(op, Tail(names), mods, acc, failed \cup {name})
             ELSE Raised(op, exc)

\* load_agents(manifest_path)
load_agents(man, mods) ==
    CASE man.kind = "absent"   -> Returned("load_agents", EmptyDict, {})
      [] man.kind = "badjson"  -> Raised("load_agents", "JSONDecodeError")
      [] man.kind = "noagents" -> Raised("load_agents", "KeyError")
      [] OTHER -> LoadLoop("load_agents", man.agents, mods, EmptyDict, {})

\* AgentLoader._load_core_agents
AgentLoader_load_core_agents(man, mods) ==
    CASE man.kind = "absent"   -> Returned("_load_core_agents", EmptyDict, {})
      [] man.kind = "badjson"  -> Raised("_load_core_agents", "JSONDecodeError")
      [] man.kind = "noagents" -> Returned("_load_core_agents", EmptyDict, {})
      [] OTHER -> LoadLoop("_load_core_agents", man.agents, mods, EmptyDict, {})

\* self.manifest_data after _load_core_agents: assigned only when json.load
\* returned.
ManifestDataAfter(man, old) ==
    IF man.kind \in {"noagents", "doc"} THEN man ELSE old

\* load_plugins(plugins_dir) and AgentLoader._load_plugin_agents: the dict of
\* the registered plugin agents whose class could be instantiated; nothing
\* when the directory had to be created.
load_plugins(dir_exists, reg) ==
    IF ~dir_exists THEN EmptyDict
    ELSE [n \in {m \in DOMAIN reg : reg[m] = "ok"} |-> Handle(n, "plugin")]

\* a merge that keeps the manifest's handle on a collision
MergePlugins_CoreWins(core, plugin_agents) == DictUpdate(plugin_agents, core)

\* agents.update(plugin_agents)
MergePlugins(core, plugin_agents) == DictUpdate(core, plugin_agents)

\* load_all_agents(manifest_path, plugins_dir), AgentLoader.load_agents and
\* the start of fusion_api: the core load, then the plugin load, then the
\* merge.  An exception of the core load ends the call before the plugins
\* are looked at.
LoadAll(op, core, dir_exists, reg) ==
    IF core.kind = "raised" THEN Raised(op, core.exc)
    ELSE Returned(op, MergePlugins(core.agents, load_plugins(dir_exists, reg)),
                  core.failed)

----------------------------------------------------------------------------
(* The parts of the program a specification leaves alone *)

\* agent_manifest before fusion_api is imported
NoManifest == [kind |-> "absent", agents |-> <<>>]

\* load_agent_manifest(): the document of the file, or
\* {"agents": {}, "system_capabilities": {}} when there is no file
load_agent_manifest(man) ==
    IF man.kind = "absent" THEN [kind |-> "doc", agents |-> <<>>] ELSE man

\* no list operation has been called since the last reload
NoListing ==
    [op \in {"list_available_agents", "list_agents", "Dispatcher.list_agents"}
        |-> [kind |-> "none"]]

\* the threads that may call the shared AgentLoader
Threads == {"t1", "t2"}

\* Orchestrator.rewrite has not been called
RewriteIdle ==
    /\ pm_result = [kind |-> "none"]
    /\ rewritten = [kind |-> "none"]

\* The two attributes as __init__ leaves them.  Loads are numbered in the
\* order they start; load 0 is the constructor's `{}` and `{}`.
NoWrites == [starts |-> 0, manifest_data |-> 0, loaded_agents |-> 0,
             interleaved |-> FALSE]

\* no thread is inside AgentLoader.load_agents and no reader has run
ReloadIdle ==
    /\ reload_pc = [t \in Threads |-> [pc |-> "idle"]]
    /\ reload_log = NoWrites
    /\ observed = [kind |-> "none"]

\* no serving process has been started
ProcessIdle ==
    /\ proc = [program |-> "none"]
    /\ created = <<>>

ServicesIdle ==
    /\ RewriteIdle
    /\ ReloadIdle
    /\ ProcessIdle
    /\ route_request = [kind |-> "none"]
    /\ route_response = [status |-> 0]
    /\ prompt_text = <<>>
    /\ selected = "none"
    /\ api_request = [endpoint |-> "none"]
    /\ api_response = [status |-> 0]
    /\ api_trace = <<>>
    /\ fan_request = <<>>
    /\ fan_pc = "idle"
    /\ fan_results = EmptyDict
    /\ fan_order = <<>>
    /\ fan_evaluations = EmptyDict
    /\ fan_response = [status |-> 0]

----------------------------------------------------------------------------
(* Registry: actions *)

DispatcherIdle ==
    /\ agents = EmptyDict
    /\ request = [agent_name |-> "none"]
    /\ calls = <<>>
    /\ outcome = [kind |-> "none"]
    /\ error_log = <<>>

InitRegistry ==
    /\ manifest \in Manifests
    /\ modules \in [AgentNames -> ModuleOutcomes]
    /\ \A n \in AgentNames :
          (\A i \in 1..Len(manifest.agents) : manifest.agents[i] # n)
             => modules[n] = "ok"
    /\ plugins_dir_exists \in BOOLEAN
    /\ plugin_registry \in [AgentNames -> {"none", "ok", "fails"}]
    /\ loaded = NotCalled
    /\ loaded_agents = EmptyDict
    /\ manifest_data = [kind |-> "absent", agents |-> <<>>]
    /\ agent_map = EmptyDict
    /\ DispatcherIdle
    /\ listing = NoListing
    /\ agent_manifest = NoManifest
    /\ ServicesIdle

\* load_agents()
LoadAgents ==
    /\ loaded' = load_agents(manifest, modules)
    /\ UNCHANGED <<manifest, modules, plugins_dir_exists, plugin_registry,
                   loaded_agents, manifest_data, agent_map>>
    /\ UNCHANGED dispatcher_vars
    /\ UNCHANGED <<listing, agent_manifest>>
    /\ UNCHANGED service_vars
    /\ UNCHANGED <<rewrite_vars, reload_vars, process_vars>>

\* load_plugins()
LoadPlugins ==
    /\ loaded' = Returned("load_plugins",
                          load_plugins(plugins_dir_exists, plugin_registry),
                          {n \in AgentNames : plugins_dir_exists /\ plugin_registry[n] = "fails"})
    /\ plugins_dir_exists' = TRUE
    /\ UNCHANGED <<manifest, modules, plugin_registry,
                   loaded_agents, manifest_data, agent_map>>
    /\ UNCHANGED dispatcher_vars
    /\ UNCHANGED <<listing, agent_manifest>>
    /\ UNCHANGED service_vars
    /\ UNCHANGED <<rewrite_vars, reload_vars, process_vars>>

\* load_all_agents()
LoadAllAgents ==
    /\ loaded' = LoadAll("load_all_agents", load_agents(manifest, modules),
                         plugins_dir_exists, plugin_registry)
    /\ plugins_dir_exists' =
          (plugins_dir_exists \/ load_agents(manifest, modules).kind = "returned")
    /\ UNCHANGED <<manifest, modules, plugin_registry,
                   loaded_agents, manifest_data, agent_map>>
    /\ UNCHANGED dispatcher_vars
    /\ UNCHANGED <<listing, agent_manifest>>
    /\ UNCHANGED service_vars
    /\ UNCHANGED <<rewrite_vars, reload_vars, process_vars>>

\* AgentLoader._load_core_agents()
AgentLoaderLoadCoreAgents ==
    /\ loaded' = AgentLoader_load_core_agents(manifest, modules)
    /\ manifest_data' = ManifestDataAfter(manifest, manifest_data)
    /\ UNCHANGED <<manifest, modules, plugins_dir_exists, plugin_registry,
                   loaded_agents, agent_map>>
    /\ UNCHANGED dispatcher_vars
    /\ listing' = NoListing
    /\ UNCHANGED agent_manifest
    /\ UNCHANGED service_vars
    /\ UNCHANGED <<rewrite_vars, reload_vars, process_vars>>

\* AgentLoader.load_agents()
AgentLoaderLoadAgents ==
    LET core == AgentLoader_load_core_agents(manifest, modules)
        res  == LoadAll("AgentLoader.load_agents", core,
                        plugins_dir_exists, plugin_registry)
    IN  /\ loaded' = res
        /\ manifest_data' = ManifestDataAfter(manifest, manifest_data)
        /\ loaded_agents' = IF res.kind = "returned" THEN res.agents ELSE loaded_agents
        /\ plugins_dir_exists' = (plugins_dir_exists \/ core.kind = "returned")
        /\ UNCHANGED <<manifest, modules, plugin_registry, agent_map,
                       agent_manifest>>
        /\ UNCHANGED dispatcher_vars
        /\ listing' = NoListing
        /\ UNCHANGED service_vars
        /\ UNCHANGED <<rewrite_vars, reload_vars, process_vars>>

\* fusion_api at import: agent_map = load_agents();
\* agent_map.update(load_plugins()); agent_manifest = load_agent_manifest()
ApiStartup ==
    LET core == load_agents(manifest, modules)
        res  == LoadAll("fusion_api", core, plugins_dir_exists, plugin_registry)
    IN  /\ loaded' = res
        /\ agent_map' = IF res.kind = "returned" THEN res.agents ELSE agent_map
        /\ agent_manifest' = IF res.kind = "returned"
                             THEN load_agent_manifest(manifest)
                             ELSE agent_manifest
        /\ plugins_dir_exists' = (plugins_dir_exists \/ core.kind = "returned")
        /\ UNCHANGED <<manifest, modules, plugin_registry,
                       loaded_agents, manifest_data>>
        /\ UNCHANGED dispatcher_vars
        /\ listing' = NoListing
        /\ UNCHANGED service_vars
        /\ UNCHANGED <<rewrite_vars, reload_vars, process_vars>>

NextRegistry ==
    \/ LoadAgents
    \/ LoadPlugins
    \/ LoadAllAgents
    \/ AgentLoaderLoadCoreAgents
    \/ AgentLoaderLoadAgents
    \/ ApiStartup

SpecRegistry == InitRegistry /\ [][NextRegistry]_vars

----------------------------------------------------------------------------
(* Dispatcher: Python values *)

PyStr(s) == [t |-> "str", v |-> s]

PyNone == [t |-> "NoneType", v |-> "None"]

PyInt == [t |-> "int", v |-> "7"]

\* the marker of a key a dict does not have
Missing == [t |-> "missing", v |-> ""]

\* a dict with at most the keys `output` and `enhanced_output`
PyDict(o, e) == [t |-> "dict", output |-> o, enhanced_output |-> e]

\* repr() of a value held in a dict
Repr(x) == IF x.t = "str" THEN "'" \o x.v \o "'" ELSE x.v

\* str(result)
Str(x) ==
    IF x.t = "str" THEN x
    ELSE IF x.t = "dict"
    THEN PyStr("{"
               \o (IF x.output = Missing THEN "" ELSE "'output': " \o Repr(x.output))
               \o (IF x.output # Missing /\ x.enhanced_output # Missing THEN ", " ELSE "")
               \o (IF x.enhanced_output = Missing THEN ""
                   ELSE "'enhanced_output': " \o Repr(x.enhanced_output))
               \o "}")
    ELSE PyStr(x.v)

\* result.get(key, default), given the value under the key or Missing
Get(value, default) == IF value = Missing THEN default ELSE value

\* dispatch, the run_async and run branches:
\*   if isinstance(result, dict):
\*       return result.get('output', result.get('enhanced_output', str(result)))
\*   return str(result)
NormalizeMapping(result) ==
    IF result.t = "dict"
    THEN Get(result.output, Get(result.enhanced_output, Str(result)))
    ELSE Str(result)

\* dispatch, the direct-call branch: return str(result)
NormalizeDirect(result) == Str(result)

----------------------------------------------------------------------------
(* Dispatcher: handlers *)

\* How a method is defined: not at all, with def, or with async def.
RunAsyncKinds == {"none", "async"}

RunKinds == {"none", "sync", "async"}

\* What hasattr and the call operator find on a handle.
Shapes == [run_async : RunAsyncKinds, run : RunKinds, callable : BOOLEAN]

\* What a handler returns.
ReturnValues ==
    {PyStr("X"), PyNone}
    \cup {PyDict(o, e) : o \in {Missing, PyStr("X"), PyNone, PyInt},
                         e \in {Missing, PyStr("Y"), PyNone}}

\* What a handler's code does when it runs: return a value or raise.
Behaviours ==
    {[kind |-> "return", val |-> v, exc |-> "none"] : v \in ReturnValues}
    \cup {[kind |-> "raise", val |-> PyNone, exc |-> e] :
             e \in {"TypeError", "RuntimeError"}}

\* An exception object: its type, and the exception it wraps if any.
Exc(type) == [type |-> type, cause |-> "none"]

\* What dispatch gives its caller, with the handler calls it made and the
\* records it logged.
DispatchReturn(val, cs) ==
    [outcome |-> [kind |-> "returned", val |-> val, exc |-> Exc("none")],
     calls |-> cs, error_log |-> <<>>]

\* an except clause that logs and returns None
Reraise_Swallow(agent_name, e, cs) ==
    [outcome |-> [kind |-> "returned", val |-> PyNone, exc |-> Exc("none")],
     calls |-> cs,
     error_log |-> <<[agent |-> agent_name, exc |-> e]>>]

\* except Exception as e: self.logger.error(...); raise
Reraise(agent_name, e, cs) ==
    [outcome |-> [kind |-> "raised", val |-> PyNone, exc |-> e],
     calls |-> cs,
     error_log |-> <<[agent |-> agent_name, exc |-> e]>>]

\* raise ValueError(f"Agent '{agent_name}' not found. ..."), before the try
UnknownAgent(agent_name) ==
    [outcome |-> [kind |-> "raised", val |-> PyNone, exc |-> Exc("ValueError")],
     calls |-> <<>>, error_log |-> <<>>]

Call(agent_name, method, nargs) ==
    [agent |-> agent_name, method |-> method, nargs |-> nargs]

\* result = await agent.<method>(input_text, context or {}), then the
\* normalization: the method's code runs; what it raises is raised; what an
\* async def returns is the result; what a def returns is not awaitable and
\* the await raises TypeError.
AwaitMethod(agent_name, method, kind, beh) ==
    LET cs == <<Call(agent_name, method, 2)>>
    IN  IF beh.kind = "raise" THEN Reraise(agent_name, Exc(beh.exc), cs)
        ELSE IF kind = "sync" THEN Reraise(agent_name, Exc("TypeError"), cs)
        ELSE DispatchReturn(NormalizeMapping(beh.val), cs)

\* a direct-call branch that gives "None" for a handle that cannot be called
DirectCall_NoneForUncallable(agent_name, shape, beh) ==
    LET cs == <<Call(agent_name, "__call__", 1)>>
    IN  IF ~shape.callable THEN DispatchReturn(Str(PyNone), <<>>)
        ELSE IF beh.kind = "raise" THEN Reraise(agent_name, Exc(beh.exc), cs)
        ELSE DispatchReturn(NormalizeDirect(beh.val), cs)

\* result = agent(input_text); return str(result): calling a handle that is
\* not callable raises TypeError before any handler code runs.
DirectCall(agent_name, shape, beh) ==
    LET cs == <<Call(agent_name, "__call__", 1)>>
    IN  IF ~shape.callable THEN Reraise(agent_name, Exc("TypeError"), <<>>)
        ELSE IF beh.kind = "raise" THEN Reraise(agent_name, Exc(beh.exc), cs)
        ELSE DispatchReturn(NormalizeDirect(beh.val), cs)

\* a chain that goes on to the next shape when one raises
Invoke_FallbackChain(agent_name, shape, beh) ==
    LET a == AwaitMethod(agent_name, "run_async", shape.run_async, beh)
        r == AwaitMethod(agent_name, "run", shape.run, beh)
        d == DirectCall(agent_name, shape, beh)
        after_r == IF shape.run = "none" THEN d
                   ELSE IF r.outcome.kind = "returned" THEN r
                   ELSE [d EXCEPT !.calls = r.calls \o d.calls]
    IN  IF shape.run_async = "none" THEN after_r
        ELSE IF a.outcome.kind = "returned" THEN a
        ELSE [after_r EXCEPT !.calls = a.calls \o after_r.calls]

\* the if / elif / else of dispatch
Invoke(agent_name, shape, beh) ==
    IF shape.run_async # "none"
    THEN AwaitMethod(agent_name, "run_async", shape.run_async, beh)
    ELSE IF shape.run # "none"
    THEN AwaitMethod(agent_name, "run", shape.run, beh)
    ELSE DirectCall(agent_name, shape, beh)

\* a dispatch that sends an unknown name to some registered agent
Dispatcher_dispatch_Default(ags, agent_name, beh) ==
    IF agent_name \in DOMAIN ags THEN Invoke(agent_name, ags[agent_name], beh)
    ELSE IF DOMAIN ags = {} THEN UnknownAgent(agent_name)
    ELSE LET d == CHOOSE n \in DOMAIN ags : TRUE IN Invoke(d, ags[d], beh)

\* Dispatcher.dispatch(agent_name, input_text, context)
Dispatcher_dispatch(ags, agent_name, beh) ==
    IF agent_name \notin DOMAIN ags THEN UnknownAgent(agent_name)
    ELSE Invoke(agent_name, ags[agent_name], beh)

----------------------------------------------------------------------------
(* Dispatcher: actions *)

RegistryIdle ==
    /\ manifest = [kind |-> "absent", agents |-> <<>>]
    /\ modules = [n \in AgentNames |-> "ok"]
    /\ plugins_dir_exists = FALSE
    /\ plugin_registry = [n \in AgentNames |-> "none"]
    /\ loaded = NotCalled
    /\ loaded_agents = EmptyDict
    /\ manifest_data = [kind |-> "absent", agents |-> <<>>]
    /\ agent_map = EmptyDict

\* Dispatcher.__init__: self.agents is the map the load gave, here any map of
\* at most MaxRegistered handles of any shape.
InitDispatcher ==
    /\ RegistryIdle
    /\ \E S \in SUBSET AgentNames :
          /\ Cardinality(S) <= MaxRegistered
          /\ agents \in [S -> Shapes]
    /\ request = [agent_name |-> "none"]
    /\ calls = <<>>
    /\ outcome = [kind |-> "none"]
    /\ error_log = <<>>
    /\ listing = NoListing
    /\ agent_manifest = NoManifest
    /\ ServicesIdle

\* await dispatcher.dispatch(agent_name, input_text), the handler doing beh,
\* for the names and behaviours given
DispatchWith(names, behaviours) ==
    \E agent_name \in names, beh \in behaviours :
        LET res == Dispatcher_dispatch(agents, agent_name, beh)
        IN  /\ request' = [agent_name |-> agent_name, beh |-> beh]
            /\ calls' = res.calls
            /\ outcome' = res.outcome
            /\ error_log' = res.error_log
            /\ UNCHANGED <<agents, manifest, modules, plugins_dir_exists,
                           plugin_registry, loaded, loaded_agents,
                           manifest_data, agent_map, listing,
                           agent_manifest>>
            /\ UNCHANGED service_vars
            /\ UNCHANGED <<rewrite_vars, reload_vars, process_vars>>

Dispatch == DispatchWith(AgentNames, Behaviours)

NextDispatcher == Dispatch

SpecDispatcher == InitDispatcher /\ [][NextDispatcher]_vars

----------------------------------------------------------------------------
(* Dispatcher: properties *)

Dispatched == request.agent_name # "none"

Known == Dispatched /\ request.agent_name \in DOMAIN agents

\* the shape of the handle the request names
Target == agents[request.agent_name]

HasNoShape(shape) ==
    shape.run_async = "none" /\ shape.run = "none" /\ ~shape.callable

\* the handler's code ran and raised
HandlerRaised == Known /\ calls # <<>> /\ request.beh.kind = "raise"

\* the canonical output the specification gives for a raw return value that
\* is a mapping or a string
CanonicalOutput(result) ==
    IF result.t # "dict" THEN Str(result)
    ELSE IF result.output # Missing THEN result.output
    ELSE IF result.enhanced_output # Missing THEN result.enhanced_output
    ELSE Str(result)

\* C4: dispatch on a name that is not in the dispatcher's map fails with the
\* unknown-agent error, and no handler method of any agent has been run.
C4_UnknownNameFailsBeforeAnyHandler ==
    (Dispatched /\ request.agent_name \notin DOMAIN agents)
        => /\ outcome.kind = "raised"
           /\ outcome.exc.type = "ValueError"
           /\ calls = <<>>

\* C4 witness: an unknown name was dispatched while another agent is
\* registered.
C4_Witness ==
    /\ Dispatched
    /\ request.agent_name \notin DOMAIN agents
    /\ DOMAIN agents # {}
    /\ outcome.kind = "raised"

\* C5: whatever the capability shape of the handler (async method, sync
\* method, plain callable), a returned mapping with `output` yields that
\* field, one with `enhanced_output` and no `output` yields that field, one
\* with neither yields the rendering of the mapping, and a string is given
\* back unchanged.
C5_NormalizationForEveryShape ==
    (/\ Known
     /\ ~HasNoShape(Target)
     /\ request.beh.kind = "return"
     /\ request.beh.val.t \in {"dict", "str"})
        => /\ outcome.kind = "returned"
           /\ outcome.val = CanonicalOutput(request.beh.val)

\* C5, the part the code keeps: the normalization of what an awaited
\* run_async or run returns.
C5_NormalizationOfAsyncMethods ==
    (/\ Known
     /\ calls # <<>>
     /\ calls[1].method \in {"run_async", "run"}
     /\ outcome.kind = "returned")
        => outcome.val = CanonicalOutput(request.beh.val)

\* C6: every dispatch that returns gives its caller a string.
C6_DispatchReturnsText ==
    (Dispatched /\ outcome.kind = "returned") => outcome.val.t = "str"

\* C7: a dispatch uses exactly one invocation shape, the first present of
\* run_async, run and the direct call; when it raises, no other shape is
\* tried, and the handler is invoked at most once.
C7_FixedPrecedenceOneInvocation ==
    Known =>
        /\ Len(calls) <= 1
        /\ (calls # <<>>) <=> ~HasNoShape(Target)
        /\ calls # <<>> =>
              /\ calls[1].agent = request.agent_name
              /\ calls[1].method =
                    (IF Target.run_async # "none" THEN "run_async"
                     ELSE IF Target.run # "none" THEN "run"
                     ELSE "__call__")

\* C7 witness: the chosen shape raised although the handler has a shape of
\* lower precedence.
C7_Witness ==
    /\ HandlerRaised
    /\ calls[1].method = "run_async"
    /\ Target.run # "none"
    /\ Target.callable
    /\ outcome.kind = "raised"

\* C8: a handler with only a synchronous two-argument run method, returning
\* a mapping or a string directly, is dispatched successfully and its
\* normalized output is returned.
C8_SyncRunIsDispatched ==
    (/\ Known
     /\ Target.run_async = "none"
     /\ Target.run = "sync"
     /\ request.beh.kind = "return"
     /\ request.beh.val.t \in {"dict", "str"})
        => /\ outcome.kind = "returned"
           /\ outcome.val = CanonicalOutput(request.beh.val)

\* C9 as claimed: dispatch of a registered handle that has none of the
\* shapes fails with an error of the kind UnsupportedHandlerKind, which no
\* handler's own failure has.
C9_UnsupportedHandlerKind ==
    (Known /\ HasNoShape(Target))
        => /\ outcome.kind = "raised"
           /\ outcome.exc.type = "UnsupportedHandlerKind"

\* C9: dispatch of a registered handle that has none of the shapes fails:
\* the attempted direct call raises TypeError, no handler code runs, and the
\* error is logged and raised to the caller like an error of a handler.
C9_NoShapeFailsWithTypeError ==
    (Known /\ HasNoShape(Target))
        => /\ outcome.kind = "raised"
           /\ outcome.exc = Exc("TypeError")
           /\ calls = <<>>
           /\ error_log = <<[agent |-> request.agent_name, exc |-> Exc("TypeError")]>>

\* C9 witness: a registered handle with no shape was dispatched.
C9_Witness ==
    /\ Known
    /\ HasNoShape(Target)
    /\ outcome.kind = "raised"

----------------------------------------------------------------------------
(* Registry: properties *)

\* the names the manifest declares
Declared == {manifest.agents[i] : i \in 1..Len(manifest.agents)}

\* the declared names whose module imports, whose class exists and whose
\* constructor returns
GoodEntries == {n \in Declared : modules[n] = "ok"}

CoreLoadOps == {"load_agents", "_load_core_agents"}

MergeOps == {"load_all_agents", "AgentLoader.load_agents", "fusion_api"}

\* C1: a load of a manifest with N entries that resolve and instantiate and M
\* entries that fail (missing module, missing class, or a constructor that
\* raises) returns a map with exactly the N good names, in whatever order the
\* entries stand, and raises nothing.
C1_BestEffortBatchLoad ==
    (loaded.op \in CoreLoadOps /\ manifest.kind = "doc")
        => /\ loaded.kind = "returned"
           /\ DOMAIN loaded.agents = GoodEntries

\* C1, the part the code keeps: entries that fail with a missing module or a
\* missing class are skipped and the others are loaded.
C1_SkipsUnresolvedEntries ==
    (/\ loaded.op \in CoreLoadOps
     /\ manifest.kind = "doc"
     /\ \A n \in Declared : modules[n] # "ctor_raises")
        => /\ loaded.kind = "returned"
           /\ DOMAIN loaded.agents = GoodEntries
           /\ loaded.failed = Declared \ GoodEntries

\* C2: a manifest that is absent, is not valid JSON, or has no `agents`
\* mapping makes load_agents and _load_core_agents return zero agents; neither
\* raises.
C2_BadManifestIsNonFatal ==
    (loaded.op \in CoreLoadOps /\ manifest.kind \in {"absent", "badjson", "noagents"})
        => /\ loaded.kind = "returned"
           /\ loaded.agents = EmptyDict

----------------------------------------------------------------------------
(* Rewrite/route service: prompt_orchestrator.py, POST /route *)

\* Confidences and thresholds are counted in tenths: 7 is 0.7.

\* AgentRouteRequest.confidence_threshold: float = 0.7
DefaultThreshold == 7

\* the names PromptMaster suggests
RouterAgents == {"vp_design", "strategy_pilot", "creative_director"}

\* shared_state["pattern_type"]; "brand_focused" stands for a pattern the
\* table of defaults does not have
PatternTypes == {"design_focused", "strategy_focused", "technical_focused",
                 "content_focused", "general", "brand_focused"}

\* all sequences over S of length at most k
RECURSIVE SeqsUpTo(_, _)
SeqsUpTo(S, k) ==
    IF k = 0 THEN {<<>>}
    ELSE LET shorter == SeqsUpTo(S, k - 1)
         IN  shorter \cup {<<n>> \o t : n \in S, t \in {u \in shorter : Len(u) = k - 1}}

\* What prompt_master.run_async gives route_agent: a mapping with an `error`
\* key, or a mapping with shared_state and confidence.  A missing key and its
\* default are one value here ([] / 0.0 / "general").
PromptMasterResults ==
    [error : BOOLEAN,
     suggested_agents : SeqsUpTo(RouterAgents, MaxSuggested),
     confidence : 0..MaxConfidence,
     pattern_type : PatternTypes]

\* pattern_defaults.get(pattern_type, "evaluator")
pattern_defaults(pattern_type) ==
    CASE pattern_type = "design_focused"    -> "vp_design"
      [] pattern_type = "strategy_focused"  -> "strategy_pilot"
      [] pattern_type = "technical_focused" -> "design_technologist"
      [] pattern_type = "content_focused"   -> "content_designer"
      [] pattern_type = "general"           -> "evaluator"
      [] OTHER                               -> "evaluator"

\* suggested_agents[1:3]
Slice1To3(l) == SubSeq(l, 2, IF Len(l) < 3 THEN Len(l) ELSE 3)

\* a slice that keeps one alternative only
Alternatives_OnlyOne(l) == SubSeq(l, 2, IF Len(l) < 2 THEN Len(l) ELSE 2)

\* alternatives = suggested_agents[1:3]  # Next 2 alternatives
Alternatives(l) == Slice1To3(l)

\* a gate that needs the confidence to exceed the threshold
ThresholdMet_Strict(confidence, threshold) == confidence > threshold

\* confidence >= req.confidence_threshold
ThresholdMet(confidence, threshold) == confidence >= threshold

\* raise HTTPException(status_code=500, ...), also from the except clause
RouteFailed ==
    [status |-> 500, recommended_agent |-> "none", confidence |-> 0,
     alternatives |-> <<>>, reasoning |-> "none"]

\* route_agent(req): the two branches of the recommendation and the reasoning
route_agent(result, threshold) ==
    IF result.error THEN RouteFailed
    ELSE LET high == result.suggested_agents # <<>>
                     /\ ThresholdMet(result.confidence, threshold)
         IN  [status |-> 200,
              recommended_agent |->
                  IF high THEN result.suggested_agents[1]
                  ELSE pattern_defaults(result.pattern_type),
              confidence |-> result.confidence,
              alternatives |->
                  IF high THEN Alternatives(result.suggested_agents)
                  ELSE <<"vp_design", "creative_director">>,
              reasoning |->
                  IF ThresholdMet(result.confidence, threshold)
                  THEN "High confidence routing to specialized agents."
                  ELSE "Low confidence, using fallback routing."]

RouterOthersIdle ==
    /\ ReloadIdle
    /\ ProcessIdle
    /\ RewriteIdle
    /\ RegistryIdle
    /\ DispatcherIdle
    /\ listing = NoListing
    /\ agent_manifest = NoManifest
    /\ prompt_text = <<>>
    /\ selected = "none"
    /\ api_request = [endpoint |-> "none"]
    /\ api_response = [status |-> 0]
    /\ api_trace = <<>>
    /\ fan_request = <<>>
    /\ fan_pc = "idle"
    /\ fan_results = EmptyDict
    /\ fan_order = <<>>
    /\ fan_evaluations = EmptyDict
    /\ fan_response = [status |-> 0]

InitRouter ==
    /\ route_request = [kind |-> "none"]
    /\ route_response = [status |-> 0]
    /\ RouterOthersIdle

\* POST /route with the threshold the caller gave.  The handler keeps no
\* state between requests, so one request from the initial state is every
\* request.
RouteAgent ==
    /\ route_request.kind = "none"
    /\ \E result \in PromptMasterResults, threshold \in 0..MaxConfidence :
        /\ route_request' = [kind |-> "route", result |-> result,
                             threshold |-> threshold, defaulted |-> FALSE]
        /\ route_response' = route_agent(result, threshold)
        /\ UNCHANGED <<manifest, modules, plugins_dir_exists, plugin_registry,
                       loaded, loaded_agents, manifest_data, agent_map, listing,
                       agent_manifest,
                       prompt_text, selected, api_request, api_response,
                       api_trace, fan_request, fan_pc, fan_results, fan_order,
                       fan_evaluations, fan_response>>
        /\ UNCHANGED <<rewrite_vars, reload_vars, process_vars>>
        /\ UNCHANGED dispatcher_vars

\* POST /route without confidence_threshold
RouteAgentDefaultThreshold ==
    /\ route_request.kind = "none"
    /\ \E result \in PromptMasterResults :
        /\ route_request' = [kind |-> "route", result |-> result,
                             threshold |-> DefaultThreshold, defaulted |-> TRUE]
        /\ route_response' = route_agent(result, DefaultThreshold)
        /\ UNCHANGED <<manifest, modules, plugins_dir_exists, plugin_registry,
                       loaded, loaded_agents, manifest_data, agent_map, listing,
                       agent_manifest,
                       prompt_text, selected, api_request, api_response,
                       api_trace, fan_request, fan_pc, fan_results, fan_order,
                       fan_evaluations, fan_response>>
        /\ UNCHANGED <<rewrite_vars, reload_vars, process_vars>>
        /\ UNCHANGED dispatcher_vars

NextRouter ==
    \/ RouteAgent
    \/ RouteAgentDefaultThreshold

SpecRouter == InitRouter /\ [][NextRouter]_vars

----------------------------------------------------------------------------
(* Rewrite/route service: properties *)

\* POST /route was answered with a recommendation
Routed == route_request.kind = "route" /\ route_response.status = 200

\* C11: with a non-empty suggested_agents, a confidence equal to the
\* threshold takes suggested_agents[0] and its followers; a confidence one
\* unit below the threshold takes the pattern default and the fixed pair.
C11_ThresholdGateIsInclusive ==
    (Routed /\ route_request.result.suggested_agents # <<>>) =>
        /\ route_request.result.confidence = route_request.threshold
              => /\ route_response.recommended_agent
                       = route_request.result.suggested_agents[1]
                 /\ route_response.alternatives
                       = Slice1To3(route_request.result.suggested_agents)
        /\ route_request.result.confidence + 1 = route_request.threshold
              => /\ route_response.recommended_agent
                       = pattern_defaults(route_request.result.pattern_type)
                 /\ route_response.alternatives = <<"vp_design", "creative_director">>

\* C11 witness: a confidence exactly at the threshold took a suggestion that
\* differs from the pattern default.
C11_Witness ==
    /\ Routed
    /\ route_request.result.suggested_agents # <<>>
    /\ route_request.result.confidence = route_request.threshold
    /\ route_request.threshold > 0
    /\ route_response.recommended_agent = route_request.result.suggested_agents[1]
    /\ route_response.recommended_agent
          # pattern_defaults(route_request.result.pattern_type)

----------------------------------------------------------------------------
(* Router: the local heuristic, core/orchestrator.py *)

\* A prompt is a sequence of characters, so that `word in prompt_lower` is
\* the substring test Python makes.

\* str.lower() on one character
LowerChar(c) ==
    CASE c = "A" -> "a" [] c = "B" -> "b" [] c = "C" -> "c" [] c = "D" -> "d"
      [] c = "E" -> "e" [] c = "F" -> "f" [] c = "G" -> "g" [] c = "H" -> "h"
      [] c = "I" -> "i" [] c = "J" -> "j" [] c = "K" -> "k" [] c = "L" -> "l"
      [] c = "M" -> "m" [] c = "N" -> "n" [] c = "O" -> "o" [] c = "P" -> "p"
      [] c = "Q" -> "q" [] c = "R" -> "r" [] c = "S" -> "s" [] c = "T" -> "t"
      [] c = "U" -> "u" [] c = "V" -> "v" [] c = "W" -> "w" [] c = "X" -> "x"
      [] c = "Y" -> "y" [] c = "Z" -> "z" [] OTHER -> c

\* prompt.lower()
Lower(s) == [i \in 1..Len(s) |-> LowerChar(s[i])]

\* word in text, for strings
Substring(word, text) ==
    \E i \in 1..(Len(text) + 1) :
        /\ i + Len(word) - 1 <= Len(text)
        /\ SubSeq(text, i, i + Len(word) - 1) = word

\* any(word in prompt_lower for word in [...])
AnyIn(words, text) == \E word \in words : Substring(word, text)

\* ["design", "ui", "ux", "interface", "visual"]
DesignMarkers ==
    {<<"d", "e", "s", "i", "g", "n">>,
     <<"u", "i">>,
     <<"u", "x">>,
     <<"i", "n", "t", "e", "r", "f", "a", "c", "e">>,
     <<"v", "i", "s", "u", "a", "l">>}

\* ["strategy", "roadmap", "business", "plan"]
StrategyMarkers ==
    {<<"s", "t", "r", "a", "t", "e", "g", "y">>,
     <<"r", "o", "a", "d", "m", "a", "p">>,
     <<"b", "u", "s", "i", "n", "e", "s", "s">>,
     <<"p", "l", "a", "n">>}

\* ["code", "technical", "implement", "development"]
TechnicalMarkers ==
    {<<"c", "o", "d", "e">>,
     <<"t", "e", "c", "h", "n", "i", "c", "a", "l">>,
     <<"i", "m", "p", "l", "e", "m", "e", "n", "t">>,
     <<"d", "e", "v", "e", "l", "o", "p", "m", "e", "n", "t">>}

\* ["content", "copy", "text", "narrative"]
ContentMarkers ==
    {<<"c", "o", "n", "t", "e", "n", "t">>,
     <<"c", "o", "p", "y">>,
     <<"t", "e", "x", "t">>,
     <<"n", "a", "r", "r", "a", "t", "i", "v", "e">>}

\* ["evaluate", "analyze", "review", "critique"]
EvaluationMarkers ==
    {<<"e", "v", "a", "l", "u", "a", "t", "e">>,
     <<"a", "n", "a", "l", "y", "z", "e">>,
     <<"r", "e", "v", "i", "e", "w">>,
     <<"c", "r", "i", "t", "i", "q", "u", "e">>}

\* a chain that tests strategy/planning before design/UI
select_agent_StrategyFirst(prompt) ==
    LET prompt_lower == Lower(prompt)
    IN  IF AnyIn(StrategyMarkers, prompt_lower) THEN "strategy_pilot"
        ELSE IF AnyIn(DesignMarkers, prompt_lower) THEN "vp_design"
        ELSE IF AnyIn(TechnicalMarkers, prompt_lower) THEN "design_technologist"
        ELSE IF AnyIn(ContentMarkers, prompt_lower) THEN "content_designer"
        ELSE IF AnyIn(EvaluationMarkers, prompt_lower) THEN "evaluator"
        ELSE "evaluator"

\* Orchestrator.select_agent(prompt)
select_agent(prompt) ==
    LET prompt_lower == Lower(prompt)
    IN  IF AnyIn(DesignMarkers, prompt_lower) THEN "vp_design"
        ELSE IF AnyIn(StrategyMarkers, prompt_lower) THEN "strategy_pilot"
        ELSE IF AnyIn(TechnicalMarkers, prompt_lower) THEN "design_technologist"
        ELSE IF AnyIn(ContentMarkers, prompt_lower) THEN "content_designer"
        ELSE IF AnyIn(EvaluationMarkers, prompt_lower) THEN "evaluator"
        ELSE "evaluator"

\* "Design a mobile app for Bitcoin trading"
DesignPrompt ==
    <<"D", "e", "s", "i", "g", "n", " ", "a", " ", "m", "o", "b", "i", "l", "e", " ", "a", "p", "p", " ", "f", "o", "r", " ", "B", "i", "t", "c", "o", "i", "n", " ", "t", "r", "a", "d", "i", "n", "g">>

\* The words prompts are made of: markers of every category, in both cases,
\* words that hold a marker as a fragment only (build, explanation, context)
\* and a word that holds none.
Vocabulary ==
    {<<"D", "e", "s", "i", "g", "n">>,
     <<"U", "I">>,
     <<"p", "l", "a", "n">>,
     <<"R", "o", "a", "d", "m", "a", "p">>,
     <<"c", "o", "d", "e">>,
     <<"c", "o", "p", "y">>,
     <<"r", "e", "v", "i", "e", "w">>,
     <<"b", "u", "i", "l", "d">>,
     <<"e", "x", "p", "l", "a", "n", "a", "t", "i", "o", "n">>,
     <<"c", "o", "n", "t", "e", "x", "t">>,
     <<"h", "e", "l", "l", "o">>}

\* the words of ws with one space between them
RECURSIVE JoinWords(_)
JoinWords(ws) ==
    IF ws = <<>> THEN <<>>
    ELSE IF Len(ws) = 1 THEN ws[1]
    ELSE ws[1] \o <<" ">> \o JoinWords(Tail(ws))

Prompts ==
    {JoinWords(ws) : ws \in SeqsUpTo(Vocabulary, MaxWords)} \cup {DesignPrompt}

HeuristicOthersIdle ==
    /\ ReloadIdle
    /\ ProcessIdle
    /\ RegistryIdle
    /\ DispatcherIdle
    /\ listing = NoListing
    /\ agent_manifest = NoManifest
    /\ route_request = [kind |-> "none"]
    /\ route_response = [status |-> 0]
    /\ api_request = [endpoint |-> "none"]
    /\ api_response = [status |-> 0]
    /\ api_trace = <<>>
    /\ fan_request = <<>>
    /\ fan_pc = "idle"
    /\ fan_results = EmptyDict
    /\ fan_order = <<>>
    /\ fan_evaluations = EmptyDict
    /\ fan_response = [status |-> 0]

InitHeuristic ==
    /\ prompt_text = <<>>
    /\ selected = "none"
    /\ RewriteIdle
    /\ HeuristicOthersIdle

\* orchestrator.select_agent(prompt); the function keeps no state
SelectAgent ==
    /\ selected = "none"
    /\ rewritten.kind = "none"
    /\ \E prompt \in Prompts :
        /\ prompt_text' = prompt
        /\ selected' = select_agent(prompt)
        /\ UNCHANGED <<manifest, modules, plugins_dir_exists, plugin_registry,
                       loaded, loaded_agents, manifest_data, agent_map, listing,
                       agent_manifest,
                       route_request, route_response, api_request, api_response,
                       api_trace, fan_request, fan_pc, fan_results, fan_order,
                       fan_evaluations, fan_response>>
        /\ UNCHANGED <<rewrite_vars, reload_vars, process_vars>>
        /\ UNCHANGED dispatcher_vars

----------------------------------------------------------------------------
(* Router: Orchestrator.rewrite *)

\* bool(x) for the values of the model
Truthy(x) ==
    \/ x.t = "str" /\ x.v # ""
    \/ x.t = "int"

\* the value under `shared_state`: no such key, a value without .get, or a
\* dict with at most the key `rewritten_prompt`
SharedStates ==
    {Missing, PyNone}
    \cup {[t |-> "dict", rewritten_prompt |-> r] :
             r \in {Missing, PyNone, PyStr(""), PyStr("R")}}

\* what prompt_master.run_async returns
PromptMasterReturns ==
    {PyStr("R"), PyStr(""), PyNone}
    \cup {[t |-> "dict", shared_state |-> sh, enhanced_output |-> e, output |-> o] :
             sh \in SharedStates,
             e \in {Missing, PyNone, PyStr(""), PyStr("E")},
             o \in {Missing, PyNone, PyStr(""), PyStr("O")}}

\* what prompt_master.run_async does: return a value or raise
PromptMasterBehaviours ==
    {[kind |-> "return", val |-> v] : v \in PromptMasterReturns}
    \cup {[kind |-> "raise", val |-> PyNone]}

\* the prompts given to rewrite
RewritePrompts == {PyStr("P"), PyStr("")}

\* Orchestrator.rewrite(prompt).  The body stands in try / except Exception,
\* which returns the prompt; shared_state.get on a value that is not a dict
\* raises AttributeError inside it.
rewrite(prompt, beh) ==
    IF beh.kind = "raise" THEN [kind |-> "returned", val |-> prompt]
    ELSE LET result == beh.val
         IN  IF result.t # "dict"
             THEN [kind |-> "returned", val |-> Str(result)]
             ELSE LET sh == Get(result.shared_state, [t |-> "dict", rewritten_prompt |-> Missing])
                  IN  IF sh.t # "dict"
                      THEN [kind |-> "returned", val |-> prompt]
                      ELSE LET r == Get(sh.rewritten_prompt, PyNone)
                           IN  IF Truthy(r)
                               THEN [kind |-> "returned", val |-> r]
                               ELSE [kind |-> "returned",
                                     val |-> Get(result.enhanced_output,
                                                 Get(result.output, prompt))]

\* await orchestrator.rewrite(prompt); the function keeps no state
Rewrite ==
    /\ rewritten.kind = "none"
    /\ selected = "none"
    /\ \E prompt \in RewritePrompts, beh \in PromptMasterBehaviours :
        /\ pm_result' = [kind |-> "called", prompt |-> prompt, beh |-> beh]
        /\ rewritten' = rewrite(prompt, beh)
        /\ UNCHANGED <<manifest, modules, plugins_dir_exists, plugin_registry,
                       loaded, loaded_agents, manifest_data, agent_map, listing,
                       agent_manifest, prompt_text, selected,
                       route_request, route_response, api_request, api_response,
                       api_trace, fan_request, fan_pc, fan_results, fan_order,
                       fan_evaluations, fan_response>>
        /\ UNCHANGED <<reload_vars, process_vars>>
        /\ UNCHANGED dispatcher_vars

NextHeuristic ==
    \/ SelectAgent
    \/ Rewrite

SpecHeuristic == InitHeuristic /\ [][NextHeuristic]_vars

----------------------------------------------------------------------------
(* Router, the local heuristic: properties *)

\* The categories in their priority order, each with its one agent.
Categories ==
    <<[name |-> "design/UI", agent |-> "vp_design", markers |-> DesignMarkers],
      [name |-> "strategy/planning", agent |-> "strategy_pilot",
       markers |-> StrategyMarkers],
      [name |-> "technical/implementation", agent |-> "design_technologist",
       markers |-> TechnicalMarkers],
      [name |-> "content/writing", agent |-> "content_designer",
       markers |-> ContentMarkers],
      [name |-> "evaluation/review", agent |-> "evaluator",
       markers |-> EvaluationMarkers]>>

\* a marker of category i occurs in the lower-cased prompt
MarkerPresent(i, prompt) ==
    \E m \in Categories[i].markers : Substring(m, Lower(prompt))

\* C14: select_agent gives the agent of the first category, in the order
\* design/UI, strategy/planning, technical/implementation, content/writing,
\* evaluation/review, that has a marker in the lower-cased input, whatever
\* markers of later categories are present; with no marker at all it gives
\* `evaluator`; it gives exactly one of the five agents for every input.
C14_FirstCategoryWins ==
    selected # "none" =>
        /\ selected \in {Categories[i].agent : i \in 1..5}
        /\ \A i \in 1..5 :
              (MarkerPresent(i, prompt_text)
                 /\ \A j \in 1..(i - 1) : ~MarkerPresent(j, prompt_text))
                 => selected = Categories[i].agent
        /\ (\A i \in 1..5 : ~MarkerPresent(i, prompt_text)) => selected = "evaluator"
        /\ selected = select_agent(prompt_text)

\* C14 witness: a strategy marker stands before a design marker in the text,
\* and the design agent is selected.
C14_Witness ==
    /\ selected = "vp_design"
    /\ MarkerPresent(1, prompt_text)
    /\ MarkerPresent(2, prompt_text)
    /\ Len(prompt_text) >= 4
    /\ SubSeq(Lower(prompt_text), 1, 4) = <<"p", "l", "a", "n">>

----------------------------------------------------------------------------
(* API: fusion_api.py, the calls to the rewrite/route service *)

\* the fixed confidence of a degraded answer, 0.5, in tenths
FallbackConfidence == 5

\* What the POST to the service does: no answer within the timeout, no
\* connection, or a response with a status and a body.  `parsable` says
\* whether response.json() can read the body; the other fields are the
\* body's.
ServiceReply(kind, status, parsable, text, agent, confidence) ==
    [kind |-> kind, status |-> status, parsable |-> parsable,
     rewritten_prompt |-> text, recommended_agent |-> agent,
     confidence |-> confidence]

\* the text the service rewrites a prompt to
RewrittenText == <<"E", "n", "h", "a", "n", "c", "e", "d">>

RewriteReplies ==
    {ServiceReply("timeout", 0, FALSE, <<>>, "none", 0),
     ServiceReply("network_error", 0, FALSE, <<>>, "none", 0),
     ServiceReply("response", 500, TRUE, <<>>, "none", 0),
     ServiceReply("response", 200, FALSE, <<>>, "none", 0),
     ServiceReply("response", 200, TRUE, RewrittenText, "none", 9),
     ServiceReply("response", 200, TRUE, <<>>, "none", 9)}

RouteReplies ==
    {ServiceReply("timeout", 0, FALSE, <<>>, "none", 0),
     ServiceReply("response", 500, TRUE, <<>>, "none", 0),
     ServiceReply("response", 200, FALSE, <<>>, "none", 0),
     ServiceReply("response", 200, TRUE, <<>>, "vp_design", 9),
     ServiceReply("response", 200, TRUE, <<>>, "creative_director", 9)}

\* the service was not called
NoReply == ServiceReply("not_called", 0, FALSE, <<>>, "none", 0)

\* the reply never reaches `response.status_code`, or its body cannot be
\* read: httpx raises, or response.json() raises
RaisesInClient(reply) ==
    \/ reply.kind \in {"timeout", "network_error"}
    \/ reply.kind = "response" /\ reply.status = 200 /\ ~reply.parsable

\* {"original_prompt": prompt, "rewritten_prompt": prompt, "confidence": 0.5}
IdentityRewrite(prompt) ==
    [raised |-> FALSE, original_prompt |-> prompt, rewritten_prompt |-> prompt,
     confidence |-> FallbackConfidence]

\* a client that lets a non-200 status raise to the caller
call_prompt_orchestrator_RaiseForStatus(prompt, reply) ==
    IF RaisesInClient(reply) THEN IdentityRewrite(prompt)
    ELSE IF reply.status = 200
    THEN [raised |-> FALSE, original_prompt |-> prompt,
          rewritten_prompt |-> reply.rewritten_prompt,
          confidence |-> reply.confidence]
    ELSE [IdentityRewrite(prompt) EXCEPT !.raised = TRUE]

\* call_prompt_orchestrator(prompt): the whole body stands in
\* try / except Exception
call_prompt_orchestrator(prompt, reply) ==
    IF RaisesInClient(reply) THEN IdentityRewrite(prompt)
    ELSE IF reply.status = 200
    THEN [raised |-> FALSE, original_prompt |-> prompt,
          rewritten_prompt |-> reply.rewritten_prompt,
          confidence |-> reply.confidence]
    ELSE IdentityRewrite(prompt)

\* get_agent_recommendation(prompt)
get_agent_recommendation(prompt, reply) ==
    IF RaisesInClient(reply)
    THEN [recommended_agent |-> "evaluator", confidence |-> FallbackConfidence]
    ELSE IF reply.status = 200
    THEN [recommended_agent |-> reply.recommended_agent,
          confidence |-> reply.confidence]
    ELSE [recommended_agent |-> "evaluator", confidence |-> FallbackConfidence]

----------------------------------------------------------------------------
(* API: fusion_api.py, POST /run and POST /prompt *)

\* What a handler gives: the HTTP response and the calls it made, in order.
Handled(response, trace) == [response |-> response, trace |-> trace]

\* return {"agent": ..., "output": ..., "success": True, ...}
RunSucceeded(agent, output) ==
    [status |-> 200, agent |-> agent, output |-> output, success |-> TRUE,
     error |-> "none", cause |-> "none"]

\* The agent name the detail text of an error holds.  The 404 of /run is
\* f"Agent '{req.agent}' not found"; the 500 of /run is
\* f"Agent execution failed: {str(e)}", which holds a name only when the
\* exception's own message does, as the dispatcher's
\* ValueError(f"Agent '{agent_name}' not found. ...") does.
DetailAgent(agent, error, cause) ==
    IF error = "Agent not found" THEN agent
    ELSE IF error = "Agent execution failed" /\ cause = "ValueError" THEN agent
    ELSE "none"

\* raise HTTPException(status_code=..., detail=f"<error>: {str(e)}")
HttpError(status, agent, error, cause) ==
    [status |-> status, agent |-> agent, output |-> PyNone, success |-> FALSE,
     error |-> error, cause |-> cause,
     detail_agent |-> DetailAgent(agent, error, cause)]

\* an exception no handler catches: the framework answers 500
Unhandled(agent, cause) ==
    HttpError(500, agent, "Internal Server Error", cause)

\* the events of the trace
MemoryInit(agent, ok) == [ev |-> "memory_init", agent |-> agent, ok |-> ok]

RewriteCall(prompt, reply, result) ==
    [ev |-> "rewrite", prompt |-> prompt, reply |-> reply, result |-> result]

RouteCall(prompt, reply, result) ==
    [ev |-> "route", prompt |-> prompt, reply |-> reply, result |-> result]

\* result = await run_agent(run_request), in handle_prompt
RunAgentCall(agent) == [ev |-> "run_agent", agent |-> agent]

DispatchCall(agent, input, beh, res) ==
    [ev |-> "dispatch", agent |-> agent, input |-> input, beh |-> beh,
     res |-> res]

MemoryAppend(agent, input, output, ok) ==
    [ev |-> "memory_append", agent |-> agent, input |-> input,
     output |-> output, ok |-> ok]

LogEvent(agent, input, output, fallback, ok) ==
    [ev |-> "telemetry", agent |-> agent, input |-> input, output |-> output,
     fallback |-> fallback, ok |-> ok]

\* RunRequest
RunRequest(agent, input, use_memory, use_telemetry, use_prompt_orchestrator) ==
    [agent |-> agent, input |-> input, use_memory |-> use_memory,
     use_telemetry |-> use_telemetry,
     use_prompt_orchestrator |-> use_prompt_orchestrator]

\* run_agent(req), in a process whose agent_map is amap and whose dispatcher
\* holds dags; world says what the rewrite service, the handler, the memory
\* store and the telemetry logger do when they are called.
run_agent(amap, dags, req, world) ==
    IF req.agent \notin DOMAIN amap
    THEN Handled(HttpError(404, req.agent, "Agent not found", "none"), <<>>)
    ELSE IF req.use_memory /\ world.memory = "init_raises"
    THEN Handled(Unhandled(req.agent, "AgentMemory"),
                 <<MemoryInit(req.agent, FALSE)>>)
    ELSE
    LET t0 == IF req.use_memory THEN <<MemoryInit(req.agent, TRUE)>> ELSE <<>>
        rw == call_prompt_orchestrator(req.input, world.rewrite_reply)
        final_input ==
            IF req.use_prompt_orchestrator /\ ~rw.raised
               /\ rw.rewritten_prompt # <<>>
            THEN rw.rewritten_prompt
            ELSE req.input
        t1 == IF req.use_prompt_orchestrator
              THEN t0 \o <<RewriteCall(req.input, world.rewrite_reply, rw)>>
              ELSE t0
        d  == Dispatcher_dispatch(dags, req.agent, world.beh)
        t2 == t1 \o <<DispatchCall(req.agent, final_input, world.beh, d)>>
        dispatch_ok == d.outcome.kind = "returned"
        output == d.outcome.val
        append_tried == dispatch_ok /\ req.use_memory
        append_ok == world.memory # "append_raises"
        t3 == IF append_tried
              THEN t2 \o <<MemoryAppend(req.agent, req.input, output, append_ok)>>
              ELSE t2
        log_tried == dispatch_ok /\ (append_tried => append_ok)
                     /\ req.use_telemetry
        log_ok == world.telemetry # "raises"
        t4 == IF log_tried
              THEN t3 \o <<LogEvent(req.agent, req.input, output, "none", log_ok)>>
              ELSE t3
        success == dispatch_ok /\ (append_tried => append_ok)
                   /\ (log_tried => log_ok)
        cause == IF ~dispatch_ok THEN d.outcome.exc.type
                 ELSE IF append_tried /\ ~append_ok THEN "memory.append"
                 ELSE "telemetry.log_event"
        t5 == IF req.use_telemetry
              THEN t4 \o <<LogEvent(req.agent, req.input, PyStr("Error: " \o cause),
                                    "error_handling", log_ok)>>
              ELSE t4
    IN  IF success THEN Handled(RunSucceeded(req.agent, output), t4)
        ELSE IF req.use_telemetry /\ ~log_ok
        THEN Handled(Unhandled(req.agent, "telemetry.log_event"), t5)
        ELSE Handled(HttpError(500, req.agent, "Agent execution failed", cause), t5)

\* a selection in which a registered recommendation replaces the caller's
\* preference
final_agent_RecommendationFirst(amap, req, rec) ==
    IF req.use_prompt_orchestrator /\ rec.recommended_agent \in DOMAIN amap
    THEN rec.recommended_agent
    ELSE IF req.agent_preference # "none" THEN req.agent_preference
    ELSE "evaluator"

\* final_agent in handle_prompt: `req.agent_preference or "evaluator"`,
\* replaced by the recommendation `if not req.agent_preference and
\* recommended_agent in agent_map`; agent_preference "none" is Python's None
final_agent(amap, req, rec) ==
    IF req.use_prompt_orchestrator /\ req.agent_preference = "none"
       /\ rec.recommended_agent \in DOMAIN amap
    THEN rec.recommended_agent
    ELSE IF req.agent_preference # "none" THEN req.agent_preference
    ELSE "evaluator"

\* handle_prompt(req).  The whole body stands in try / except Exception, and
\* the HTTPException run_agent raises is an Exception: whatever its status,
\* the caller gets 500 "Prompt handling failed: ...".
handle_prompt(amap, dags, req, world) ==
    LET rec == get_agent_recommendation(req.input, world.route_reply)
        t0  == IF req.use_prompt_orchestrator
               THEN <<RouteCall(req.input, world.route_reply, rec)>>
               ELSE <<>>
        fa  == final_agent(amap, req, rec)
        r == run_agent(amap, dags,
                       RunRequest(fa, req.input, req.use_memory,
                                  req.use_telemetry, req.use_prompt_orchestrator),
                       world)
        t1  == t0 \o <<RunAgentCall(fa)>> \o r.trace
    IN  IF r.response.status = 200
        THEN Handled(r.response, t1)
        ELSE Handled(HttpError(500, fa, "Prompt handling failed",
                               r.response.error),
                     t1)

----------------------------------------------------------------------------
(* API: the process after start, and its requests *)

\* the manifests the API process is started with
ApiManifests ==
    {[kind |-> "doc", agents |-> s] :
        s \in {<<>>, <<"evaluator">>, <<"vp_design">>,
               <<"evaluator", "vp_design">>,
               <<"evaluator", "vp_design", "summarizer">>}}

\* the plugin registries it is started with: no plugin, or one registering
\* `summarizer`
ApiPluginRegistries ==
    {[n \in AgentNames |-> "none"],
     [n \in AgentNames |-> IF n = "summarizer" THEN "ok" ELSE "none"]}

\* an agent class with `async def run_async`
AsyncAgent == [run_async |-> "async", run |-> "none", callable |-> FALSE]

\* the prompts sent to the API
ApiInputs == {DesignPrompt, <<"h", "i">>}

\* what the dispatched handler does
ApiBehaviours ==
    {[kind |-> "return", val |-> PyStr("X"), exc |-> "none"],
     [kind |-> "return", val |-> PyDict(PyStr("X"), Missing), exc |-> "none"],
     [kind |-> "raise", val |-> PyNone, exc |-> "RuntimeError"]}

\* What the collaborators of a request do.  One that the request's flags
\* leave out is not called.
Worlds(use_memory, use_telemetry, use_prompt_orchestrator, routes) ==
    [rewrite_reply : IF use_prompt_orchestrator THEN RewriteReplies ELSE {NoReply},
     route_reply : IF routes /\ use_prompt_orchestrator THEN RouteReplies
                   ELSE {NoReply},
     beh : ApiBehaviours,
     memory : IF use_memory THEN {"ok", "init_raises", "append_raises"}
              ELSE {"unused"},
     telemetry : IF use_telemetry THEN {"ok", "raises"} ELSE {"unused"}]

\* fusion_api after import: agent_map is the manifest load merged with the
\* plugins; the dispatcher made its own manifest load.
Started ==
    /\ manifest \in ApiManifests
    /\ modules = [n \in AgentNames |-> "ok"]
    /\ plugins_dir_exists = TRUE
    /\ plugin_registry \in ApiPluginRegistries
    /\ loaded = LoadAll("fusion_api", load_agents(manifest, modules),
                        plugins_dir_exists, plugin_registry)
    /\ loaded_agents = EmptyDict
    /\ manifest_data = [kind |-> "absent", agents |-> <<>>]
    /\ agent_map = loaded.agents
    /\ agent_manifest = load_agent_manifest(manifest)
    /\ agents = [n \in DOMAIN load_agents(manifest, modules).agents |-> AsyncAgent]
    /\ request = [agent_name |-> "none"]
    /\ calls = <<>>
    /\ outcome = [kind |-> "none"]
    /\ error_log = <<>>

InitApi ==
    /\ Started
    /\ listing = NoListing
    /\ ServicesIdle

\* the dispatch events of a trace
DispatchesOf(trace) == SelectSeq(trace, LAMBDA e : e.ev = "dispatch")

\* The state a handled request leaves: the response, the trace, and the
\* dispatcher's last call if the handler reached the dispatcher.
Answer(endpoint, req, world, h) ==
    LET ds == DispatchesOf(h.trace)
    IN  /\ api_request' = [endpoint |-> endpoint, req |-> req, world |-> world]
        /\ api_response' = h.response
        /\ api_trace' = h.trace
        /\ IF ds = <<>>
           THEN UNCHANGED <<request, calls, outcome, error_log>>
           ELSE /\ request' = [agent_name |-> ds[1].agent, beh |-> ds[1].beh]
                /\ calls' = ds[1].res.calls
                /\ outcome' = ds[1].res.outcome
                /\ error_log' = ds[1].res.error_log
        /\ UNCHANGED <<manifest, modules, plugins_dir_exists, plugin_registry,
                       loaded, loaded_agents, manifest_data, agent_map, agents,
                       listing, agent_manifest, route_request, route_response, prompt_text,
                       selected, fan_request, fan_pc, fan_results, fan_order,
                       fan_evaluations, fan_response>>
        /\ UNCHANGED <<rewrite_vars, reload_vars, process_vars>>

\* POST /run.  Nothing a request leaves behind is read by a later one, so
\* one request from the started process is every request.
RunAgent ==
    /\ api_request.endpoint = "none"
    /\ \E agent \in AgentNames, input \in ApiInputs,
          use_memory \in BOOLEAN, use_telemetry \in BOOLEAN,
          use_prompt_orchestrator \in BOOLEAN :
        \E world \in Worlds(use_memory, use_telemetry,
                            use_prompt_orchestrator, FALSE) :
            LET req == RunRequest(agent, input, use_memory, use_telemetry,
                                  use_prompt_orchestrator)
            IN  Answer("/run", req, world,
                       run_agent(agent_map, agents, req, world))

\* POST /prompt
HandlePrompt ==
    /\ api_request.endpoint = "none"
    /\ \E agent_preference \in AgentNames \cup {"none"}, input \in ApiInputs,
          use_memory \in BOOLEAN, use_telemetry \in BOOLEAN,
          use_prompt_orchestrator \in BOOLEAN :
        \E world \in Worlds(use_memory, use_telemetry,
                            use_prompt_orchestrator, TRUE) :
            LET req == [agent_preference |-> agent_preference, input |-> input,
                        use_memory |-> use_memory,
                        use_telemetry |-> use_telemetry,
                        use_prompt_orchestrator |-> use_prompt_orchestrator]
            IN  Answer("/prompt", req, world,
                       handle_prompt(agent_map, agents, req, world))

NextApi ==
    \/ RunAgent
    \/ HandlePrompt

SpecApi == InitApi /\ [][NextApi]_vars

----------------------------------------------------------------------------
(* API: properties *)

\* the events of one kind in the trace of the handled request
EventsOf(kind) == SelectSeq(api_trace, LAMBDA e : e.ev = kind)

\* the rewrite service did not give a readable 200 answer
RewriteFailed(reply) ==
    \/ reply.kind \in {"timeout", "network_error"}
    \/ reply.kind = "response" /\ reply.status # 200
    \/ reply.kind = "response" /\ reply.status = 200 /\ ~reply.parsable

\* C13: on a timeout, a network failure, a non-200 response or an unreadable
\* body, call_prompt_orchestrator does not raise and returns the input
\* prompt as rewritten prompt with confidence 0.5.
C13_RewriteCallDegradesToIdentity ==
    \A i \in 1..Len(api_trace) :
        (api_trace[i].ev = "rewrite" /\ RewriteFailed(api_trace[i].reply)) =>
            /\ ~api_trace[i].result.raised
            /\ api_trace[i].result.rewritten_prompt = api_trace[i].prompt
            /\ api_trace[i].result.original_prompt = api_trace[i].prompt
            /\ api_trace[i].result.confidence = 5

\* C13 witness: the service answered /run's rewrite call with a non-200
\* status, the handler was dispatched with the unchanged input and the
\* request succeeded.
C13_Witness ==
    /\ api_request.endpoint = "/run"
    /\ api_response.status = 200
    /\ Len(EventsOf("rewrite")) = 1
    /\ EventsOf("rewrite")[1].reply.kind = "response"
    /\ EventsOf("rewrite")[1].reply.status = 500
    /\ Len(EventsOf("dispatch")) = 1
    /\ EventsOf("dispatch")[1].input = api_request.req.input

\* a /prompt request that gets nothing from the rewrite/route service: the
\* caller disabled it, or both its endpoints time out, cannot be reached or
\* answer with an error status
ServiceUnavailable ==
    /\ api_request.endpoint = "/prompt"
    /\ \/ ~api_request.req.use_prompt_orchestrator
       \/ /\ RewriteFailed(api_request.world.rewrite_reply)
          /\ RewriteFailed(api_request.world.route_reply)

\* C15: with the rewrite/route service unavailable or disabled and no agent
\* preference, /prompt selects the agent with the keyword heuristic: for
\* "Design a mobile app for Bitcoin trading" the agent is vp_design and
\* dispatch is invoked exactly once, on vp_design, with the unchanged prompt
\* (vp_design being loaded, and the memory store working).
C15_UnavailableServiceFallsBackToHeuristic ==
    (/\ ServiceUnavailable
     /\ api_request.req.agent_preference = "none"
     /\ api_request.req.input = DesignPrompt
     /\ "vp_design" \in DOMAIN agent_map
     /\ "vp_design" \in DOMAIN agents
     /\ api_request.world.memory # "init_raises")
    => /\ select_agent(api_request.req.input) = "vp_design"
       /\ Len(EventsOf("dispatch")) = 1
       /\ EventsOf("dispatch")[1].agent = "vp_design"
       /\ EventsOf("dispatch")[1].input = api_request.req.input

\* What /prompt does in that case: the agent is the constant `evaluator`
\* whatever the input says, and nothing is dispatched when `evaluator` is
\* not loaded.
C15_UnavailableServiceFallsBackToEvaluator ==
    (ServiceUnavailable /\ api_request.req.agent_preference = "none")
    => /\ Len(EventsOf("dispatch")) <= 1
       /\ \A i \in 1..Len(EventsOf("dispatch")) :
             /\ EventsOf("dispatch")[i].agent = "evaluator"
             /\ EventsOf("dispatch")[i].input = api_request.req.input
       /\ "evaluator" \notin DOMAIN agent_map => EventsOf("dispatch") = <<>>

\* the design prompt was sent to /prompt with the service unavailable, and
\* `evaluator` was dispatched although vp_design is loaded
C15_Witness ==
    /\ ServiceUnavailable
    /\ api_request.req.use_prompt_orchestrator
    /\ api_request.req.agent_preference = "none"
    /\ api_request.req.input = DesignPrompt
    /\ "vp_design" \in DOMAIN agents
    /\ api_response.status = 200
    /\ api_response.agent = "evaluator"

\* C20: when the dispatch of /run succeeded, the caller receives the agent's
\* output as a success, whether or not the memory append and the telemetry
\* event failed.
C20_MemoryAndTelemetryAreFireAndForget ==
    (/\ api_request.endpoint = "/run"
     /\ Len(EventsOf("dispatch")) = 1
     /\ EventsOf("dispatch")[1].res.outcome.kind = "returned")
    => /\ api_response.status = 200
       /\ api_response.success
       /\ api_response.output = EventsOf("dispatch")[1].res.outcome.val

\* the dispatch of /run succeeded, the memory append raised, and the caller
\* got an error
C20_Witness ==
    /\ api_request.endpoint = "/run"
    /\ Len(EventsOf("dispatch")) = 1
    /\ EventsOf("dispatch")[1].res.outcome.kind = "returned"
    /\ Len(EventsOf("memory_append")) = 1
    /\ ~EventsOf("memory_append")[1].ok
    /\ api_response.status = 500
    /\ api_response.error = "Agent execution failed"

----------------------------------------------------------------------------
(* Fan-out: fusion_api.py, POST /run_parallel, and the coordinator *)

\* The coordinator, MultiAgentOrchestrator.run_parallel, is modelled from
\* section 4.4 of the specification: all named agents are invoked
\* concurrently, each completes or fails on its own, the join waits for all
\* of them, and the results are then ranked.

\* the requests: non-empty lists of distinct names
FanRequests == DistinctSeqs(AgentNames, MaxFanout) \ {<<>>}

\* a validation that lets every name through
invalid_agents_None(amap, names) == SelectSeq(names, LAMBDA n : FALSE)

\* invalid_agents = [agent for agent in req.agents if agent not in agent_map]
invalid_agents(amap, names) ==
    SelectSeq(names, LAMBDA n : n \notin DOMAIN amap)

\* evaluator_agent=agent_map.get("evaluator")
EvaluatorConfigured(amap) == "evaluator" \in DOMAIN amap

\* An InvocationResult of the fan-out: the agent's output, or an error
\* marker.
FanResult(agent, ok) ==
    [agent |-> agent, ok |-> ok,
     output |-> IF ok THEN "output of " \o agent ELSE "error"]

\* the topResult of a fan-out in which no agent succeeded
NoTopResult == [agent |-> "none", ok |-> FALSE, output |-> "none"]

\* the largest score of a non-empty list of names
RECURSIVE MaxScoreOf(_, _)
MaxScoreOf(names, evaluations) ==
    IF Len(names) = 1 THEN evaluations[names[1]]
    ELSE LET rest == MaxScoreOf(Tail(names), evaluations)
         IN  IF evaluations[names[1]] >= rest THEN evaluations[names[1]] ELSE rest

\* a ranking that breaks ties in favour of the agent that finished first
TopResult_FirstFinished(names, order, results, evaluations, has_evaluator) ==
    LET successful == SelectSeq(order, LAMBDA n : results[n].ok)
    IN  IF successful = <<>> THEN NoTopResult
        ELSE IF ~has_evaluator THEN results[successful[1]]
        ELSE LET best == MaxScoreOf(successful, evaluations)
                 tops == SelectSeq(successful, LAMBDA n : evaluations[n] = best)
             IN  results[tops[1]]

\* Ranking: the successful result with the highest score, the first listed
\* on a tie; without an evaluator the first successful result in requested
\* order.  `order` is the order in which the invocations finished.
TopResult(names, order, results, evaluations, has_evaluator) ==
    LET successful == SelectSeq(names, LAMBDA n : results[n].ok)
    IN  IF successful = <<>> THEN NoTopResult
        ELSE IF ~has_evaluator THEN results[successful[1]]
        ELSE LET best == MaxScoreOf(successful, evaluations)
                 tops == SelectSeq(successful, LAMBDA n : evaluations[n] = best)
             IN  results[tops[1]]

\* a response that leaves the failed agents out of all_results
run_parallel_response_SuccessfulOnly(names, result) ==
    [status |-> 200, agents |-> names, top_result |-> result.top_result,
     all_results |-> [n \in {m \in DOMAIN result.all_results :
                                result.all_results[m].ok}
                         |-> result.all_results[n]],
     evaluations |-> result.evaluations, agent_count |-> result.agent_count]

\* return {"input": ..., "agents": req.agents, "top_result": ..., ...}
run_parallel_response(names, result) ==
    [status |-> 200, agents |-> names, top_result |-> result.top_result,
     all_results |-> result.all_results, evaluations |-> result.evaluations,
     agent_count |-> result.agent_count]

\* raise HTTPException(status_code=404, detail=f"Agents not found: ...")
AgentsNotFound(names, invalid) ==
    [status |-> 404, agents |-> names, invalid |-> invalid]

FanoutOthersIdle ==
    /\ ReloadIdle
    /\ ProcessIdle
    /\ RewriteIdle
    /\ listing = NoListing
    /\ route_request = [kind |-> "none"]
    /\ route_response = [status |-> 0]
    /\ prompt_text = <<>>
    /\ selected = "none"
    /\ api_request = [endpoint |-> "none"]
    /\ api_response = [status |-> 0]
    /\ api_trace = <<>>

fanout_unchanged ==
    <<manifest, modules, plugins_dir_exists, plugin_registry, loaded,
      loaded_agents, manifest_data, agent_map, agents, request, calls, outcome,
      error_log, listing, agent_manifest, route_request, route_response, prompt_text, selected,
      api_request, api_response, api_trace, rewrite_vars, reload_vars,
      process_vars>>

InitFanout ==
    /\ Started
    /\ FanoutOthersIdle
    /\ fan_request = <<>>
    /\ fan_pc = "idle"
    /\ fan_results = EmptyDict
    /\ fan_order = <<>>
    /\ fan_evaluations = EmptyDict
    /\ fan_response = [status |-> 0]

\* POST /run_parallel: the validation, then the call of the coordinator
RunParallelAgents ==
    /\ fan_pc = "idle"
    /\ \E names \in FanRequests :
        LET invalid == invalid_agents(agent_map, names)
        IN  /\ fan_request' = names
            /\ IF invalid # <<>>
               THEN /\ fan_response' = AgentsNotFound(names, invalid)
                    /\ fan_pc' = "done"
               ELSE /\ fan_response' = fan_response
                    /\ fan_pc' = "running"
            /\ UNCHANGED <<fan_results, fan_order, fan_evaluations>>
            /\ UNCHANGED fanout_unchanged

\* the agents of the request that have not finished
Pending ==
    {fan_request[i] : i \in 1..Len(fan_request)} \ DOMAIN fan_results

\* the invocation of agent n finishes, with its output or with the error
\* marker
Finish(n, ok) ==
    /\ fan_pc = "running"
    /\ n \in Pending
    /\ fan_results' = DictSet(fan_results, n, FanResult(n, ok))
    /\ fan_order' = Append(fan_order, n)
    /\ UNCHANGED <<fan_request, fan_pc, fan_evaluations, fan_response>>
    /\ UNCHANGED fanout_unchanged

\* one invocation returns its output
AgentCompletes == \E n \in AgentNames : Finish(n, TRUE)

\* one invocation raises
AgentFails == \E n \in AgentNames : Finish(n, FALSE)

\* The join: every invocation has finished; the evaluator, if one is
\* configured, scores each successful result; the coordinator returns and
\* the handler answers.
JoinAndRank ==
    /\ fan_pc = "running"
    /\ Pending = {}
    /\ LET has_evaluator == EvaluatorConfigured(agent_map)
           scored == IF has_evaluator
                     THEN {n \in DOMAIN fan_results : fan_results[n].ok}
                     ELSE {}
       IN  \E evaluations \in [scored -> 0..MaxScore] :
            /\ fan_evaluations' = evaluations
            /\ fan_response' =
                  run_parallel_response(
                      fan_request,
                      [top_result |-> TopResult(fan_request, fan_order, fan_results,
                                                evaluations, has_evaluator),
                       all_results |-> fan_results,
                       evaluations |-> evaluations,
                       agent_count |-> Len(fan_request)])
            /\ fan_pc' = "done"
            /\ UNCHANGED <<fan_request, fan_results, fan_order>>
            /\ UNCHANGED fanout_unchanged

NextFanout ==
    \/ RunParallelAgents
    \/ AgentCompletes
    \/ AgentFails
    \/ JoinAndRank

SpecFanout == InitFanout /\ [][NextFanout]_vars

----------------------------------------------------------------------------
(* Fan-out: properties *)

\* the names of the request
Requested == {fan_request[i] : i \in 1..Len(fan_request)}

\* /run_parallel was answered with a result
FanAnswered == fan_pc = "done" /\ fan_response.status = 200

\* C16: a request naming an agent that is not registered is rejected with
\* 404 before the coordinator is entered: no agent of the request, known or
\* not, is invoked, and there is no result, ranking or evaluation.
C16_UnknownNamesFailFast ==
    (\E n \in Requested : n \notin DOMAIN agent_map) =>
        /\ fan_pc = "done"
        /\ fan_response.status = 404
        /\ fan_results = EmptyDict
        /\ fan_order = <<>>
        /\ fan_evaluations = EmptyDict

\* C16 witness: a request with a registered and an unregistered name was
\* rejected.
C16_Witness ==
    /\ fan_response.status = 404
    /\ \E n \in Requested : n \in DOMAIN agent_map
    /\ \E n \in Requested : n \notin DOMAIN agent_map
    /\ fan_results = EmptyDict

Successful == {i \in 1..Len(fan_request) : fan_results[fan_request[i]].ok}

\* C18: with an evaluator, top_result is the successful result with the
\* highest score, and of several with that score the one listed first in
\* the request, in whatever order the invocations finished; without an
\* evaluator it is the first successful result in requested order.
C18_TopResultRanking ==
    (FanAnswered /\ Successful # {}) =>
        \E i \in Successful :
            /\ fan_response.top_result = fan_results[fan_request[i]]
            /\ IF EvaluatorConfigured(agent_map)
               THEN \A j \in Successful :
                       /\ fan_evaluations[fan_request[j]]
                             <= fan_evaluations[fan_request[i]]
                       /\ fan_evaluations[fan_request[j]]
                             = fan_evaluations[fan_request[i]] => i <= j
               ELSE \A j \in Successful : i <= j

\* C18 witness: two successful agents have the highest score, the one
\* listed first finished last, and it is the top result.
C18_Witness ==
    /\ FanAnswered
    /\ EvaluatorConfigured(agent_map)
    /\ Len(fan_request) >= 2
    /\ {1, 2} \subseteq Successful
    /\ fan_evaluations[fan_request[1]] = fan_evaluations[fan_request[2]]
    /\ \A j \in Successful :
          fan_evaluations[fan_request[j]] <= fan_evaluations[fan_request[1]]
    /\ fan_order[Len(fan_order)] = fan_request[1]
    /\ fan_response.top_result.agent = fan_request[1]

\* without an evaluator, the first listed agent failed and the second, which
\* finished before it, is the top result
C18_WitnessNoEvaluator ==
    /\ FanAnswered
    /\ ~EvaluatorConfigured(agent_map)
    /\ Len(fan_request) = 2
    /\ ~fan_results[fan_request[1]].ok
    /\ fan_response.top_result.agent = fan_request[2]

----------------------------------------------------------------------------
(* Listings: AgentLoader.list_available_agents, GET /agents and            *)
(* Dispatcher.list_agents                                                  *)

\* manifest.get("agents", {}).get(agent_name): whether the manifest
\* document has an entry for the name
HasConfig(man, name) ==
    \E i \in 1..Len(man.agents) : man.agents[i] = name

\* One entry of agents_info: the role and the other fields come from the
\* manifest entry or are the defaults ("Unknown", [], 0.8, True, True); the
\* type is the name of the handle's class.
AgentInfo(man, name, handle) ==
    [role |-> IF HasConfig(man, name) THEN "role of " \o name ELSE "Unknown",
     from_manifest |-> HasConfig(man, name),
     type |-> handle,
     available |-> TRUE]

\* What a list operation gives: the metadata, and the map and the manifest
\* data as it leaves them.
Listed(info, map, man) == [info |-> info, map |-> map, man |-> man]

\* a listing that writes the defaults it used into the manifest data
list_available_agents_Registering(la, md) ==
    LET missing == {n \in DOMAIN la : ~HasConfig(md, n)}
        added   == CHOOSE q \in DistinctSeqs(missing, Cardinality(missing)) :
                      Len(q) = Cardinality(missing)
    IN  Listed([n \in DOMAIN la |-> AgentInfo(md, n, la[n])], la,
               [kind |-> "doc", agents |-> md.agents \o added])

\* AgentLoader.list_available_agents()
list_available_agents(la, md) ==
    Listed([n \in DOMAIN la |-> AgentInfo(md, n, la[n])], la, md)

\* fusion_api.list_agents(), GET /agents
list_agents(amap, man) ==
    Listed([n \in DOMAIN amap |-> AgentInfo(man, n, amap[n])], amap, man)

\* Dispatcher.list_agents(): {name: type(agent).__name__}
Dispatcher_list_agents(ags) ==
    Listed([n \in DOMAIN ags |-> [type |-> ags[n]]], ags, NoManifest)

\* the listing after one more call of op that returned info
Record(op, info) ==
    [listing EXCEPT ![op] =
        [kind |-> "returned", info |-> info,
         calls |-> IF listing[op].kind = "none" THEN 1 ELSE listing[op].calls + 1]]

\* op may be called once more
MayList(op) ==
    IF listing[op].kind = "none" THEN TRUE ELSE listing[op].calls < MaxListCalls

InitListing ==
    /\ Started
    /\ listing = NoListing
    /\ ServicesIdle

\* agent_loader.list_available_agents()
ListAvailableAgents ==
    /\ MayList("list_available_agents")
    /\ LET r == list_available_agents(loaded_agents, manifest_data)
       IN  /\ listing' = Record("list_available_agents", r.info)
           /\ loaded_agents' = r.map
           /\ manifest_data' = r.man
    /\ UNCHANGED <<manifest, modules, plugins_dir_exists, plugin_registry,
                   loaded, agent_map, agent_manifest>>
    /\ UNCHANGED dispatcher_vars
    /\ UNCHANGED service_vars
    /\ UNCHANGED <<rewrite_vars, reload_vars, process_vars>>

\* GET /agents
ApiListAgents ==
    /\ MayList("list_agents")
    /\ LET r == list_agents(agent_map, agent_manifest)
       IN  /\ listing' = Record("list_agents", r.info)
           /\ agent_map' = r.map
           /\ agent_manifest' = r.man
    /\ UNCHANGED <<manifest, modules, plugins_dir_exists, plugin_registry,
                   loaded, loaded_agents, manifest_data>>
    /\ UNCHANGED dispatcher_vars
    /\ UNCHANGED service_vars
    /\ UNCHANGED <<rewrite_vars, reload_vars, process_vars>>

\* dispatcher.list_agents()
DispatcherListAgents ==
    /\ MayList("Dispatcher.list_agents")
    /\ LET r == Dispatcher_list_agents(agents)
       IN  /\ listing' = Record("Dispatcher.list_agents", r.info)
           /\ agents' = r.map
    /\ UNCHANGED <<manifest, modules, plugins_dir_exists, plugin_registry,
                   loaded, loaded_agents, manifest_data, agent_map,
                   agent_manifest, request, calls, outcome, error_log>>
    /\ UNCHANGED service_vars
    /\ UNCHANGED <<rewrite_vars, reload_vars, process_vars>>

\* the manifest file is rewritten on disk
ManifestEdited ==
    /\ manifest' \in ApiManifests \ {manifest}
    /\ UNCHANGED <<modules, plugins_dir_exists, plugin_registry, loaded,
                   loaded_agents, manifest_data, agent_map, agent_manifest,
                   listing>>
    /\ UNCHANGED dispatcher_vars
    /\ UNCHANGED service_vars
    /\ UNCHANGED <<rewrite_vars, reload_vars, process_vars>>

\* a dispatch between two listings
DispatchBetweenListings ==
    DispatchWith({"evaluator", "summarizer"},
                 {[kind |-> "return", val |-> PyStr("X"), exc |-> "none"],
                  [kind |-> "raise", val |-> PyNone, exc |-> "RuntimeError"]})

NextListing ==
    \/ ListAvailableAgents
    \/ ApiListAgents
    \/ DispatcherListAgents
    \/ AgentLoaderLoadAgents
    \/ ManifestEdited
    \/ DispatchBetweenListings

SpecListing == InitListing /\ [][NextListing]_vars

----------------------------------------------------------------------------
(* Listings: properties *)

ListOperations ==
    {"list_available_agents", "list_agents", "Dispatcher.list_agents"}

\* C19: a list operation called again with no reload since its last call,
\* and whatever was dispatched in between, returns the metadata it returned
\* before; and a call of a list operation leaves the name-to-handle maps
\* and the manifest data as they were.
C19_ListAgentsIsPureRead ==
    [][\A op \in ListOperations :
          /\ (listing[op].kind = "returned" /\ listing'[op].kind = "returned")
                => listing'[op].info = listing[op].info
          /\ (listing'[op] # listing[op] /\ listing'[op].kind = "returned")
                => UNCHANGED <<loaded_agents, manifest_data, agent_map,
                               agent_manifest, agents>>]_vars

\* C19 witness: list_available_agents has been called twice since the last
\* reload, with an agent the manifest data has no entry for among the
\* loaded ones, and a dispatch has been made.
C19_Witness ==
    /\ listing["list_available_agents"].kind = "returned"
    /\ listing["list_available_agents"].calls = 2
    /\ \E n \in DOMAIN loaded_agents :
          ~listing["list_available_agents"].info[n].from_manifest
    /\ \E n \in DOMAIN loaded_agents :
          listing["list_available_agents"].info[n].from_manifest
    /\ request.agent_name # "none"

----------------------------------------------------------------------------
(* Rewrite/route service: the alternatives of a recommendation *)

\* C29: in every response of route_agent the recommended agent is not one
\* of its alternatives and no alternative occurs twice, on the
\* high-confidence branch and on the pattern-default branch.
C29_AlternativesExcludePrimary ==
    Routed =>
        /\ \A i \in 1..Len(route_response.alternatives) :
              route_response.alternatives[i] # route_response.recommended_agent
        /\ \A i, j \in 1..Len(route_response.alternatives) :
              i # j => route_response.alternatives[i] # route_response.alternatives[j]

\* the pattern-default branch was taken for a design-focused prompt, and
\* vp_design is both the recommendation and its first alternative
C29_Witness ==
    /\ Routed
    /\ route_request.result.suggested_agents = <<>>
    /\ route_request.result.pattern_type = "design_focused"
    /\ route_response.recommended_agent = "vp_design"
    /\ route_response.alternatives[1] = "vp_design"

----------------------------------------------------------------------------
(* Router, the local heuristic: markers as words *)

\* the words of a text: the maximal runs of characters other than spaces
RECURSIVE WordsOf(_, _)
WordsOf(text, word) ==
    IF text = <<>> THEN (IF word = <<>> THEN {} ELSE {word})
    ELSE IF Head(text) = " "
    THEN (IF word = <<>> THEN {} ELSE {word}) \cup WordsOf(Tail(text), <<>>)
    ELSE WordsOf(Tail(text), Append(word, Head(text)))

\* a marker of category i is a word of the lower-cased prompt
MarkerIsWord(i, prompt) ==
    WordsOf(Lower(prompt), <<>>) \cap Categories[i].markers # {}

\* C27: an input that holds a marker of a category only inside a longer
\* word, and never as a word of its own, is not classified into that
\* category (stated for the four categories whose agent is not also the
\* default).
C27_MarkersAreWholeWords ==
    selected # "none" =>
        \A i \in 1..4 :
            (MarkerPresent(i, prompt_text) /\ ~MarkerIsWord(i, prompt_text))
               => selected # Categories[i].agent

\* `build` alone is classified as design/UI, for the `ui` inside it
C27_Witness ==
    /\ prompt_text = <<"b", "u", "i", "l", "d">>
    /\ selected = "vp_design"

----------------------------------------------------------------------------
(* API: the agent of /prompt, validation and failures *)

\* C26: in handle_prompt an explicit agent preference always is the agent
\* that runs; the recommendation of the service replaces the default only
\* when no preference was given and the recommended name is registered in
\* agent_map; otherwise the agent is the preference or `evaluator`; and
\* run_agent is invoked at most once per /prompt request.
C26_PreferenceWins ==
    api_request.endpoint = "/prompt" =>
        LET pref == api_request.req.agent_preference
            runs == EventsOf("run_agent")
            recs == EventsOf("route")
            registered == /\ recs # <<>>
                          /\ recs[1].result.recommended_agent \in DOMAIN agent_map
        IN  /\ Len(runs) <= 1
            /\ \A i \in 1..Len(runs) :
                  /\ pref # "none" => runs[i].agent = pref
                  /\ (pref = "none" /\ registered)
                        => runs[i].agent = recs[1].result.recommended_agent
                  /\ (pref = "none" /\ ~registered) => runs[i].agent = "evaluator"

\* the service recommended the registered vp_design, the caller preferred
\* evaluator, and evaluator is the one agent that ran
C26_Witness ==
    /\ api_request.endpoint = "/prompt"
    /\ api_request.req.agent_preference = "evaluator"
    /\ Len(EventsOf("route")) = 1
    /\ EventsOf("route")[1].result.recommended_agent = "vp_design"
    /\ "vp_design" \in DOMAIN agent_map
    /\ Len(EventsOf("run_agent")) = 1
    /\ EventsOf("run_agent")[1].agent = "evaluator"
    /\ Len(EventsOf("dispatch")) = 1
    /\ EventsOf("dispatch")[1].agent = "evaluator"
    /\ api_response.status = 200

\* the agent of a /prompt request is not registered in agent_map
PromptForUnknownAgent ==
    /\ api_request.endpoint = "/prompt"
    /\ EventsOf("run_agent") # <<>>
    /\ EventsOf("run_agent")[1].agent \notin DOMAIN agent_map

\* C30: an unknown agent reached through /prompt (a preference that is not
\* registered, or the default `evaluator` when it is not loaded) is answered
\* with the 404 unknown-agent rejection of /run, before any memory
\* initialisation, rewrite call or dispatch.
C30_PromptRejectsUnknownAgentAs404 ==
    PromptForUnknownAgent =>
        /\ api_response.status = 404
        /\ api_response.error = "Agent not found"
        /\ EventsOf("memory_init") = <<>>
        /\ EventsOf("rewrite") = <<>>
        /\ EventsOf("dispatch") = <<>>

\* What /prompt answers for an unknown agent: nothing was started, and the
\* rejection of run_agent comes back as a 500.
C30_PromptRejectsUnknownAgentAs500 ==
    PromptForUnknownAgent =>
        /\ api_response.status = 500
        /\ api_response.error = "Prompt handling failed"
        /\ api_response.cause = "Agent not found"
        /\ EventsOf("memory_init") = <<>>
        /\ EventsOf("rewrite") = <<>>
        /\ EventsOf("dispatch") = <<>>

\* the preference of a /prompt request is not registered, and the caller
\* got a 500
C30_Witness ==
    /\ PromptForUnknownAgent
    /\ api_request.req.agent_preference = "summarizer"
    /\ api_response.status = 500
    /\ api_response.error = "Prompt handling failed"
    /\ api_response.cause = "Agent not found"

\* C28: every name of agent_map is a name of the dispatcher's map, so a /run
\* request that passed the existence check never fails with the
\* dispatcher's unknown-agent error.
C28_ValidatedNamesAreDispatchable ==
    /\ DOMAIN agent_map \subseteq DOMAIN agents
    /\ (api_request.endpoint = "/run"
        /\ api_request.req.agent \in DOMAIN agent_map)
       => \A i \in 1..Len(EventsOf("dispatch")) :
             ~(/\ EventsOf("dispatch")[i].res.outcome.kind = "raised"
               /\ EventsOf("dispatch")[i].res.outcome.exc.type = "ValueError"
               /\ EventsOf("dispatch")[i].res.calls = <<>>)

\* /run was asked for the plugin agent `summarizer`, which passed the check
\* against agent_map, and the dispatcher raised its unknown-agent error
C28_Witness ==
    /\ api_request.endpoint = "/run"
    /\ api_request.req.agent = "summarizer"
    /\ "summarizer" \in DOMAIN agent_map
    /\ "summarizer" \notin DOMAIN agents
    /\ Len(EventsOf("dispatch")) = 1
    /\ EventsOf("dispatch")[1].res.outcome.kind = "raised"
    /\ EventsOf("dispatch")[1].res.outcome.exc.type = "ValueError"
    /\ api_response.status = 500

\* the handler of a /run request was invoked and raised
RunInvocationFailed ==
    /\ api_request.endpoint = "/run"
    /\ Len(EventsOf("dispatch")) = 1
    /\ EventsOf("dispatch")[1].res.outcome.kind = "raised"
    /\ EventsOf("dispatch")[1].res.calls # <<>>

\* C23: when the invocation of an agent fails on /run, the error the caller
\* gets names the originating agent and carries the underlying message, and
\* with telemetry enabled exactly one telemetry event is emitted, carrying
\* the error fallback marker.
C23_RunFailureNamesAgentAndLogsOnce ==
    RunInvocationFailed =>
        /\ api_response.status = 500
        /\ api_response.detail_agent = api_request.req.agent
        /\ api_response.cause = EventsOf("dispatch")[1].res.outcome.exc.type
        /\ api_request.req.use_telemetry =>
              /\ Len(EventsOf("telemetry")) = 1
              /\ EventsOf("telemetry")[1].fallback = "error_handling"
              /\ EventsOf("telemetry")[1].agent = api_request.req.agent

\* What /run does when the invocation fails and the telemetry logger works:
\* the detail carries the message of the exception, and one error event is
\* logged when telemetry is enabled.
C23_RunFailureCarriesMessage ==
    (RunInvocationFailed /\ api_request.world.telemetry # "raises") =>
        /\ api_response.status = 500
        /\ api_response.error = "Agent execution failed"
        /\ api_response.cause = EventsOf("dispatch")[1].res.outcome.exc.type
        /\ api_request.req.use_telemetry =>
              /\ Len(EventsOf("telemetry")) = 1
              /\ EventsOf("telemetry")[1].fallback = "error_handling"
              /\ EventsOf("telemetry")[1].ok

\* the handler of evaluator raised on /run with telemetry enabled: one error
\* event was logged, and the detail of the 500 does not name evaluator
C23_Witness ==
    /\ RunInvocationFailed
    /\ api_request.req.agent = "evaluator"
    /\ api_request.req.use_telemetry
    /\ Len(EventsOf("telemetry")) = 1
    /\ EventsOf("telemetry")[1].fallback = "error_handling"
    /\ api_response.status = 500
    /\ api_response.error = "Agent execution failed"
    /\ api_response.cause = "RuntimeError"
    /\ api_response.detail_agent = "none"

----------------------------------------------------------------------------
(* Registry: repeated loads *)

\* the same loader is called again, the manifest, the modules and the
\* registered plugins being what they were
LoadedAgain ==
    /\ loaded.op # "none"
    /\ loaded'.op = loaded.op

\* C24: load is idempotent per call: two successive loads with an unchanged
\* manifest and plugin source return maps with the same set of names, also
\* when the plugin directory does not exist before the first call; neither
\* call raises.
C24_LoadIsIdempotent ==
    [][LoadedAgain =>
          /\ loaded.kind = "returned"
          /\ loaded'.kind = "returned"
          /\ DOMAIN loaded'.agents = DOMAIN loaded.agents]_vars

\* What a repeated load gives: the same kind of outcome, every name of the
\* first call, and besides them only plugin agents of the registry.
C24_SecondLoadAddsOnlyPlugins ==
    [][LoadedAgain =>
          /\ loaded'.kind = loaded.kind
          /\ loaded'.exc = loaded.exc
          /\ DOMAIN loaded.agents \subseteq DOMAIN loaded'.agents
          /\ (DOMAIN loaded'.agents) \ (DOMAIN loaded.agents)
                \subseteq {n \in AgentNames : plugin_registry[n] = "ok"}]_vars

----------------------------------------------------------------------------
(* Router: properties of Orchestrator.rewrite *)

\* a string that is not empty
NonEmptyPrompt(x) == x.t = "str" /\ x.v # ""

\* the first non-empty value of a sequence, the last one when there is none
RECURSIVE FirstNonEmpty(_)
FirstNonEmpty(vals) ==
    IF Len(vals) = 1 \/ NonEmptyPrompt(Head(vals)) THEN Head(vals)
    ELSE FirstNonEmpty(Tail(vals))

\* shared_state.rewritten_prompt of a mapping result, Missing when there is
\* no such entry
RewrittenPromptOf(result) ==
    IF result.shared_state = Missing \/ result.shared_state.t # "dict"
    THEN Missing
    ELSE result.shared_state.rewritten_prompt

\* C25: Orchestrator.rewrite never raises; when the rewrite agent raises it
\* returns the original prompt; for a mapping result it returns the first
\* non-empty of shared_state.rewritten_prompt, enhanced_output, output and
\* the original prompt; it never returns an empty or null prompt when the
\* original prompt is non-empty.
C25_RewriteGivesUsablePrompt ==
    rewritten.kind # "none" =>
        /\ rewritten.kind = "returned"
        /\ pm_result.beh.kind = "raise" => rewritten.val = pm_result.prompt
        /\ (pm_result.beh.kind = "return" /\ pm_result.beh.val.t = "dict")
              => rewritten.val =
                    FirstNonEmpty(<<RewrittenPromptOf(pm_result.beh.val),
                                    pm_result.beh.val.enhanced_output,
                                    pm_result.beh.val.output,
                                    pm_result.prompt>>)
        /\ NonEmptyPrompt(pm_result.prompt) => NonEmptyPrompt(rewritten.val)

\* What rewrite does keep: it never raises, it returns the original prompt
\* when the agent raises, and a non-empty shared_state.rewritten_prompt
\* when the result holds one.
C25_RewriteNeverRaises ==
    rewritten.kind # "none" =>
        /\ rewritten.kind = "returned"
        /\ pm_result.beh.kind = "raise" => rewritten.val = pm_result.prompt
        /\ (/\ pm_result.beh.kind = "return"
            /\ pm_result.beh.val.t = "dict"
            /\ NonEmptyPrompt(RewrittenPromptOf(pm_result.beh.val)))
              => rewritten.val = RewrittenPromptOf(pm_result.beh.val)

\* the agent answered {"enhanced_output": "", "output": "O"} to a non-empty
\* prompt, and rewrite returned the empty string
C25_Witness ==
    /\ pm_result.kind = "called"
    /\ pm_result.prompt = PyStr("P")
    /\ pm_result.beh.kind = "return"
    /\ pm_result.beh.val.t = "dict"
    /\ pm_result.beh.val.shared_state = Missing
    /\ pm_result.beh.val.enhanced_output = PyStr("")
    /\ pm_result.beh.val.output = PyStr("O")
    /\ rewritten = [kind |-> "returned", val |-> PyStr("")]

----------------------------------------------------------------------------
(* Registry: threads calling one AgentLoader *)

\* the manifests the file is edited between
ReloadManifests ==
    {[kind |-> "doc", agents |-> s] :
        s \in {<<"evaluator">>, <<"evaluator", "vp_design">>}}

reload_unchanged ==
    <<modules, plugin_registry, agent_map, agent_manifest, listing,
      dispatcher_vars, service_vars, rewrite_vars, process_vars>>

\* agent_loader = AgentLoader(): nothing is loaded yet
InitReload ==
    /\ manifest \in ReloadManifests
    /\ modules = [n \in AgentNames |-> "ok"]
    /\ plugins_dir_exists = TRUE
    /\ plugin_registry \in ApiPluginRegistries
    /\ loaded = NotCalled
    /\ loaded_agents = EmptyDict
    /\ manifest_data = [kind |-> "absent", agents |-> <<>>]
    /\ agent_map = EmptyDict
    /\ agent_manifest = NoManifest
    /\ DispatcherIdle
    /\ listing = NoListing
    /\ ServicesIdle

\* some other thread is between the two writes of its load
OtherInside(t) == \E u \in Threads \ {t} : reload_pc[u].pc # "idle"

\* AgentLoader.load_agents up to the return of _load_core_agents: thread t
\* reads the manifest file, assigns self.manifest_data and builds its local
\* dict of core agents.  When _load_core_agents raises the call ends here.
ReloadCore(t) ==
    /\ reload_pc[t].pc = "idle"
    /\ reload_log.starts < MaxReloads
    /\ LET core  == AgentLoader_load_core_agents(manifest, modules)
           gen   == reload_log.starts + 1
           wrote == manifest.kind \in {"noagents", "doc"}
       IN  /\ manifest_data' = ManifestDataAfter(manifest, manifest_data)
           /\ reload_log' =
                 [starts |-> gen,
                  manifest_data |-> IF wrote THEN gen ELSE reload_log.manifest_data,
                  loaded_agents |-> reload_log.loaded_agents,
                  interleaved |-> reload_log.interleaved \/ (wrote /\ OtherInside(t))]
           /\ IF core.kind = "raised"
              THEN /\ loaded' = Raised("AgentLoader.load_agents", core.exc)
                   /\ UNCHANGED reload_pc
              ELSE /\ reload_pc' = [reload_pc EXCEPT
                                       ![t] = [pc |-> "core_loaded", gen |-> gen,
                                               core |-> core]]
                   /\ UNCHANGED loaded
    /\ UNCHANGED <<manifest, plugins_dir_exists, loaded_agents, observed>>
    /\ UNCHANGED reload_unchanged

\* AgentLoader.load_agents from _load_plugin_agents to the return: thread t
\* merges the plugin agents into its local dict and assigns
\* self.loaded_agents.
ReloadFinish(t) ==
    /\ reload_pc[t].pc = "core_loaded"
    /\ LET res == LoadAll("AgentLoader.load_agents", reload_pc[t].core,
                          plugins_dir_exists, plugin_registry)
       IN  /\ loaded_agents' = res.agents
           /\ loaded' = res
    /\ plugins_dir_exists' = TRUE
    /\ reload_log' = [reload_log EXCEPT
                         !.loaded_agents = reload_pc[t].gen,
                         !.interleaved = @ \/ OtherInside(t)]
    /\ reload_pc' = [reload_pc EXCEPT ![t] = [pc |-> "idle"]]
    /\ UNCHANGED <<manifest, manifest_data, observed>>
    /\ UNCHANGED reload_unchanged

\* A reader on another thread: list_available_agents and get_agent_config
\* read self.loaded_agents and self.manifest_data as they are.
ReadRegistry ==
    /\ observed' = [kind |-> "read",
                    manifest_data |-> manifest_data,
                    loaded_agents |-> loaded_agents,
                    metadata_of |-> reload_log.manifest_data,
                    handles_of |-> reload_log.loaded_agents]
    /\ UNCHANGED <<manifest, plugins_dir_exists, loaded, loaded_agents,
                   manifest_data, reload_pc, reload_log>>
    /\ UNCHANGED reload_unchanged

\* the manifest file is edited between two loads
EditManifest ==
    /\ \E m \in ReloadManifests \ {manifest} : manifest' = m
    /\ UNCHANGED <<plugins_dir_exists, loaded, loaded_agents, manifest_data,
                   reload_pc, reload_log, observed>>
    /\ UNCHANGED reload_unchanged

NextReload ==
    \/ \E t \in Threads : ReloadCore(t)
    \/ \E t \in Threads : ReloadFinish(t)
    \/ ReadRegistry
    \/ EditManifest

SpecReload == InitReload /\ [][NextReload]_vars

\* C21: the handle map and the manifest metadata are mutated only inside an
\* exclusive section: a reader that runs while AgentLoader.load_agents does
\* never finds the metadata of a newer load than the load its handle map is
\* of, and the writes of two concurrent reloads never interleave.
C21_ReloadIsExclusive ==
    /\ observed.kind = "read" => observed.metadata_of <= observed.handles_of
    /\ ~reload_log.interleaved

\* a reader found the metadata of the manifest with two agents together with
\* the handle map of the load before it, which holds one
C21_Witness ==
    /\ observed.kind = "read"
    /\ observed.metadata_of = 2
    /\ observed.handles_of = 1
    /\ observed.manifest_data.agents = <<"evaluator", "vp_design">>
    /\ DOMAIN observed.loaded_agents = {"evaluator"}

\* two reloads ran at once and left the metadata of the later one with the
\* handle map of the earlier one, no thread being inside a load any more
C21_WitnessInterleaved ==
    /\ \A t \in Threads : reload_pc[t].pc = "idle"
    /\ reload_log.interleaved
    /\ reload_log.manifest_data = 2
    /\ reload_log.loaded_agents = 1
    /\ manifest_data.agents = <<"evaluator", "vp_design">>
    /\ DOMAIN loaded_agents = {"evaluator"}

----------------------------------------------------------------------------
(* A serving process: fusion_api.py or minimal_api.py, and the agent
   instances it makes *)

Programs == {"fusion_api", "minimal_api"}

\* the elements of a set in some order
RECURSIVE SeqOfSet(_)
SeqOfSet(S) ==
    IF S = {} THEN <<>>
    ELSE LET x == CHOOSE y \in S : TRUE IN <<x>> \o SeqOfSet(S \ {x})

\* the names of a manifest whose class a load instantiates, in the order of
\* the loop
RECURSIVE LoadedNames(_, _)
LoadedNames(names, d) ==
    IF names = <<>> THEN <<>>
    ELSE IF Head(names) \in DOMAIN d
    THEN <<Head(names)>> \o LoadedNames(Tail(names), d)
    ELSE LoadedNames(Tail(names), d)

\* agents[name] = cls() for each name: one constructor call each, made by
\* the caller `by`
Instantiations(names, origin, by) ==
    [i \in 1..Len(names) |-> [name |-> names[i], origin |-> origin, by |-> by]]

\* the dict a load returns, each name with the position of its constructor
\* call in `created`
HandlesOf(names, offset) ==
    [n \in {names[i] : i \in 1..Len(names)} |->
        offset + (CHOOSE i \in 1..Len(names) : names[i] = n)]

\* agent_map = load_agents(): new instances, whatever the dispatcher holds
CoreHandlesForApi(dispatcher_handles, names, offset) == HandlesOf(names, offset)

process_unchanged ==
    <<manifest, modules, plugins_dir_exists, plugin_registry, loaded_agents,
      manifest_data, agent_manifest, listing, request, calls, outcome,
      error_log, service_vars, rewrite_vars, reload_vars>>

\* the program is about to be started
InitProcess ==
    /\ manifest \in {m \in Manifests : m.kind = "doc"}
    /\ modules = [n \in AgentNames |-> "ok"]
    /\ plugins_dir_exists = TRUE
    /\ plugin_registry \in ApiPluginRegistries
    /\ loaded = NotCalled
    /\ loaded_agents = EmptyDict
    /\ manifest_data = [kind |-> "absent", agents |-> <<>>]
    /\ agent_map = EmptyDict
    /\ agent_manifest = NoManifest
    /\ DispatcherIdle
    /\ listing = NoListing
    /\ RewriteIdle
    /\ ReloadIdle
    /\ route_request = [kind |-> "none"]
    /\ route_response = [status |-> 0]
    /\ prompt_text = <<>>
    /\ selected = "none"
    /\ api_request = [endpoint |-> "none"]
    /\ api_response = [status |-> 0]
    /\ api_trace = <<>>
    /\ fan_request = <<>>
    /\ fan_pc = "idle"
    /\ fan_results = EmptyDict
    /\ fan_order = <<>>
    /\ fan_evaluations = EmptyDict
    /\ fan_response = [status |-> 0]
    /\ \E p \in Programs :
          proc = [program |-> p, pc |-> "start", requests |-> 0,
                  request_loads |-> 0, dispatcher |-> EmptyDict,
                  api |-> EmptyDict, coordinator |-> EmptyDict,
                  handler |-> EmptyDict]
    /\ created = <<>>

\* fusion_api: `from core.dispatcher import dispatcher` runs
\* dispatcher = Dispatcher(), whose __init__ is self.agents = load_agents()
ImportDispatcher ==
    /\ proc.program = "fusion_api"
    /\ proc.pc = "start"
    /\ LET res   == load_agents(manifest, modules)
           names == LoadedNames(manifest.agents, res.agents)
       IN  /\ loaded' = res
           /\ agents' = [n \in DOMAIN res.agents |-> AsyncAgent]
           /\ created' = created \o Instantiations(names, "core", "Dispatcher")
           /\ proc' = [proc EXCEPT !.pc = "dispatcher",
                                   !.dispatcher = HandlesOf(names, Len(created))]
    /\ UNCHANGED agent_map
    /\ UNCHANGED process_unchanged

\* fusion_api: agent_map = load_agents(); agent_map.update(load_plugins())
LoadAgentMap ==
    /\ proc.program = "fusion_api"
    /\ proc.pc = "dispatcher"
    /\ LET core    == load_agents(manifest, modules)
           res     == LoadAll("fusion_api", core, plugins_dir_exists, plugin_registry)
           names   == LoadedNames(manifest.agents, core.agents)
           plugins == SeqOfSet(DOMAIN load_plugins(plugins_dir_exists, plugin_registry))
           made    == Instantiations(names, "core", "fusion_api")
                      \o Instantiations(plugins, "plugin", "fusion_api")
       IN  /\ loaded' = res
           /\ agent_map' = res.agents
           /\ created' = created \o made
           /\ proc' = [proc EXCEPT
                          !.pc = "agent_map",
                          !.api = DictUpdate(
                                     CoreHandlesForApi(proc.dispatcher, names, Len(created)),
                                     HandlesOf(plugins, Len(created) + Len(names)))]
    /\ UNCHANGED agents
    /\ UNCHANGED process_unchanged

\* fusion_api: orchestrator = MultiAgentOrchestrator(agents=agent_map, ...)
MakeCoordinator ==
    /\ proc.program = "fusion_api"
    /\ proc.pc = "agent_map"
    /\ proc' = [proc EXCEPT !.pc = "serving", !.coordinator = proc.api]
    /\ UNCHANGED <<loaded, agent_map, agents, created>>
    /\ UNCHANGED process_unchanged

\* fusion_api answers a request: the handlers read agent_map and the
\* dispatcher, and load nothing
ServeRequest ==
    /\ proc.program = "fusion_api"
    /\ proc.pc = "serving"
    /\ proc.requests < MaxRequests
    /\ proc' = [proc EXCEPT !.requests = @ + 1]
    /\ UNCHANGED <<loaded, agent_map, agents, created>>
    /\ UNCHANGED process_unchanged

\* minimal_api: TCPServer(("", port), FusionHandler) is bound
StartMinimalApi ==
    /\ proc.program = "minimal_api"
    /\ proc.pc = "start"
    /\ proc' = [proc EXCEPT !.pc = "serving"]
    /\ UNCHANGED <<loaded, agent_map, agents, created>>
    /\ UNCHANGED process_unchanged

\* minimal_api answers a request: the server makes a FusionHandler for it,
\* and FusionHandler.__init__ is self.agents = load_agents()
HandleMinimalRequest ==
    /\ proc.program = "minimal_api"
    /\ proc.pc = "serving"
    /\ proc.requests < MaxRequests
    /\ LET res   == load_agents(manifest, modules)
           names == LoadedNames(manifest.agents, res.agents)
       IN  /\ loaded' = res
           /\ created' = created \o Instantiations(names, "core", "FusionHandler")
           /\ proc' = [proc EXCEPT !.requests = @ + 1,
                                   !.request_loads = @ + 1,
                                   !.handler = HandlesOf(names, Len(created))]
    /\ UNCHANGED <<agent_map, agents>>
    /\ UNCHANGED process_unchanged

NextProcess ==
    \/ ImportDispatcher
    \/ LoadAgentMap
    \/ MakeCoordinator
    \/ ServeRequest
    \/ StartMinimalApi
    \/ HandleMinimalRequest

SpecProcess == InitProcess /\ [][NextProcess]_vars

\* C22: each agent handle is created once per process: no agent class is
\* instantiated more than once across the start and the requests; the
\* API's agent map, the dispatcher and the fan-out coordinator refer to the
\* same handle for a name; and no request causes agents to be loaded.
C22_HandlesAreCreatedOnce ==
    /\ \A i, j \in 1..Len(created) :
          (/\ i # j
           /\ created[i].name = created[j].name)
             => created[i].origin # created[j].origin
    /\ \A n \in DOMAIN proc.api :
          /\ n \in DOMAIN proc.dispatcher => proc.dispatcher[n] = proc.api[n]
          /\ n \in DOMAIN proc.coordinator => proc.coordinator[n] = proc.api[n]
    /\ proc.request_loads = 0

\* What does hold: the coordinator is given the API's own map.
C22_CoordinatorSharesTheApiMap ==
    proc.pc = "serving" /\ proc.program = "fusion_api" =>
        proc.coordinator = proc.api

\* fusion_api is serving: EvaluatorAgent was instantiated by the dispatcher
\* and again for agent_map, and the two maps hold different instances
C22_Witness ==
    /\ proc.program = "fusion_api"
    /\ proc.pc = "serving"
    /\ "evaluator" \in DOMAIN proc.api
    /\ "evaluator" \in DOMAIN proc.dispatcher
    /\ proc.api["evaluator"] # proc.dispatcher["evaluator"]
    /\ created[proc.dispatcher["evaluator"]] =
          [name |-> "evaluator", origin |-> "core", by |-> "Dispatcher"]
    /\ created[proc.api["evaluator"]] =
          [name |-> "evaluator", origin |-> "core", by |-> "fusion_api"]

\* minimal_api answered two requests and loaded the agents for each of them
C22_WitnessMinimalApi ==
    /\ proc.program = "minimal_api"
    /\ proc.requests = 2
    /\ proc.request_loads = 2
    /\ \E i, j \in 1..Len(created) :
          /\ i # j
          /\ created[i] = created[j]

====
